---- MODULE Spec2Model ----
(***************************************************************************)
(* Verification model of the do-FANN compute core:                         *)
(*   - SmartCache (src/memory_manager.rs): LRU tensor cache                *)
(*   - MemoryManager facade with MemoryPool and MemoryLeakDetector         *)
(*   - CpuFeatures / CpuSimdOps (src/simd/mod.rs): tier selection and      *)
(*     the matmul / activation kernels                                     *)
(* Each component has its own specification (SpecCache, SpecManager, ...)  *)
(* over the shared variable tuple; a component's specification leaves the  *)
(* other components' variables at their initial values.                    *)
(***************************************************************************)
EXTENDS Integers, Sequences, FiniteSets, TLC

\* ------------------------------------------------------------------------
\* Bounds of the model
\* ------------------------------------------------------------------------
\* greatest tensor length (elements) handed to SmartCache::put
MaxLen == 2
\* greatest max_size given to SmartCache::new, in elements of f32
MaxBudget == 3
\* number of cache operations (put/get/clear calls) explored
MaxClock == 5
\* greatest buffer length (elements) asked of MemoryManager::allocate
MaxBufLen == 1
\* number of MemoryManager::allocate calls explored
MaxAllocs == 3

\* ------------------------------------------------------------------------
\* Program constants
\* ------------------------------------------------------------------------
\* std::mem::size_of::<T>() for T = f32, the type of the global manager
SizeOfT == 4
\* enum SimdLevel, in its declared (and derived Ord) order
Scalar == 0
Neon == 1
Sse42 == 2
Avx2 == 3
Avx2FMA == 4
Avx512F == 5
Avx512VNNI == 6
\* SimdConfig::default().block_size
DefaultBlockSize == 64
\* std::mem::size_of::<f32>()
SizeOfF32 == 4
\* usize::MAX, kept to 31 bits (the width of TLC's integers); the sizes of
\* the calls modelled here stay far below it
UsizeMax == 2147483647

\* the width of usize in the scaled machine of the allocators (AlignedMemory,
\* MemoryChunk, ArenaAllocator), where requests near usize::MAX are drawn
WordBits == 8

\* the allocator returns one of the first MaxBaseMul multiples of the alignment
MaxBaseMul == 2

\* usize::MAX + 1 and isize::MAX of the scaled machine
WordModulus == 2 ^ WordBits

IsizeMax == 2 ^ (WordBits - 1) - 1

VARIABLES
    \* SmartCache<T>
    cache,            \* HashMap<String, CachedTensor>: key -> [len, last_access, access_count]
    max_size,         \* byte budget
    current_size,     \* bytes accounted
    access_history,   \* Vec<String>
    hits, misses,
    \* the caller of the cache: time source and the call in progress
    clock,            \* std::time::Instant::now(), a strictly increasing tick
    cachePc,          \* "idle" | "put" (inside SmartCache::put)
    put_key, put_len, \* arguments of the put in progress
    last_op,          \* what the last completed cache call did
    \* MemoryManager<T>
    pools,            \* HashMap<String, MemoryPool>: name -> [available, allocated_count, buffer_size]
    total_allocated,
    peak_memory,
    stats,            \* MemoryStats snapshot
    leak_detector,    \* Option<MemoryLeakDetector>: <<>> or <<[active_allocations, allocation_counter]>>
    enable_leak_detection,
    outstanding,      \* buffers the callers hold: length -> how many
    mgr_result,       \* result of the last manager call
    \* SimdConfig / CpuSimdOps
    target_arch,      \* cfg(target_arch) of the build
    cpu_features,     \* CpuFeatures
    simd_level,       \* SimdConfig::simd_level: <<>> (None) or <<level>>
    current_level,    \* CpuSimdOps::current_level
    block_size,
    enable_bounds_check,
    enable_alignment_check,
    validate_result,  \* result of the last validate_configuration
    \* the last kernel call made on the dispatcher
    call,             \* operation and arguments, buffers as they were before the call
    out,              \* the output buffer after the call
    outcome,          \* "none" | "returned" | "panicked" | "faulted" | "undefined" | "diverged"
    \* GarbageCollector
    ref_counts,           \* HashMap<String, u32>: key -> count
    marked_for_gc,        \* Vec<String>
    collection_threshold,
    gc_op,                \* the last call: [op, key, result]
    \* ArenaAllocator (on its own, or the arena of the MemoryManager)
    arena,            \* Option<ArenaAllocator>: <<>> or <<[chunks, current_chunk, chunk_size, total_allocated, alignment]>>
    enable_arena,     \* MemoryManager::enable_arena
    arena_log,        \* the requests <<size, alignment>> served since creation or the last reset
    arena_fresh,      \* no reset and no defragment since creation
    arena_op,         \* the last call: [op, size, alignment, result] (and granted for allocate)
    \* a MemoryLeakDetector used on its own, and its caller
    ledger,           \* the detector: [active_allocations, allocation_counter]
    ledger_ids,       \* the ids track_allocation returned, in order
    ledger_live,      \* id -> size, for the ids tracked and not yet deallocated
    ledger_op,        \* the last call: [op, id]
    \* a MemoryPool used on its own, and its caller
    mem_pool,         \* the pool: [available, allocated_count, buffer_size]
    pool_held,        \* length -> how many buffers of that length the caller holds
    pool_idle,        \* how many returned buffers were not handed out again
    pool_op,          \* the last call: [op, size, len] (len: length of the buffer handed out)
    \* GLOBAL_MEMORY_MANAGER and the threads calling the module's free functions
    mutex,            \* the thread holding the Mutex, 0 when it is free
    global_manager,   \* the manager inside the Mutex: [pools (names), replaced (times)]
    thread_pc,        \* thread -> [fn, step]: the call in progress and its next statement
    thread_calls,     \* thread -> calls made so far
    thread_seen,      \* thread -> <<>> or <<the manager as its last call read it>>
    \* AlignedMemory (simd/mod.rs)
    block,            \* <<>> or <<[ptr, layout, len]>>: the block the caller holds
    block_op,         \* the last call of AlignedMemory::new: [op, len, alignment, granted, result]
    \* an ArenaAllocator with the addresses of its chunks
    bases,            \* chunk -> the address MemoryChunk::new got from alloc
    ranges,           \* the ranges returned since the last reset: [chunk, start, size]
    place_op          \* the last call: [op, size, alignment, result, chunk, before, ptr]

cacheVars == <<cache, max_size, current_size, access_history, hits, misses,
               clock, cachePc, put_key, put_len, last_op>>

mgrVars == <<pools, total_allocated, peak_memory, stats, leak_detector,
             enable_leak_detection, outstanding, mgr_result>>

configVars == <<target_arch, cpu_features, simd_level, current_level, block_size,
                enable_bounds_check, enable_alignment_check, validate_result>>

callVars == <<call, out, outcome>>

gcVars == <<ref_counts, marked_for_gc, collection_threshold, gc_op>>

arenaVars == <<arena, enable_arena, arena_log, arena_fresh, arena_op>>

ledgerVars == <<ledger, ledger_ids, ledger_live, ledger_op>>

poolVars == <<mem_pool, pool_held, pool_idle, pool_op>>

globalVars == <<mutex, global_manager, thread_pc, thread_calls, thread_seen>>

blockVars == <<block, block_op>>

\* the components added after the global manager
placeVars == <<bases, ranges, place_op>>

lateVars == <<blockVars, placeVars>>

\* the components added after the pool
extVars == <<globalVars, lateVars>>

vars == <<cacheVars, mgrVars, configVars, callVars, gcVars, arenaVars, ledgerVars, poolVars,
          extVars>>

\* ------------------------------------------------------------------------
\* Generic helpers
\* ------------------------------------------------------------------------
Min(a, b) == IF a < b THEN a ELSE b
Max(a, b) == IF a > b THEN a ELSE b

RECURSIVE SumOver(_, _)
\* sum of f[x] over x \in S
SumOver(f, S) ==
    IF S = {} THEN 0
    ELSE LET x == CHOOSE y \in S : TRUE IN f[x] + SumOver(f, S \ {x})

\* Vec::remove(pos) (1-based here)
RemoveAt(s, pos) == [i \in 1..(Len(s) - 1) |-> IF i < pos THEN s[i] ELSE s[i + 1]]

\* iter().position(|k| k == key): first index holding key, 0 when absent
Position(s, key) ==
    IF \E i \in 1..Len(s) : s[i] = key
    THEN CHOOSE i \in 1..Len(s) : s[i] = key /\ \A j \in 1..(i - 1) : s[j] # key
    ELSE 0

\* ------------------------------------------------------------------------
\* Components a specification does not exercise stay as constructed
\* ------------------------------------------------------------------------
\* MemoryStats of MemoryManager::new(); f64 ratios are kept as <<num, den>>
NewStats ==
    [total_allocated |-> 0, available |-> 0, buffer_count |-> 0,
     fragmentation_ratio |-> <<0, 1>>, peak_memory |-> 0, current_memory |-> 0,
     allocation_count |-> 0, deallocation_count |-> 0,
     average_allocation_size |-> <<0, 1>>]

\* MemoryManager::new(): no pools, no leak detector
ManagerUnused ==
    /\ pools = <<>>
    /\ total_allocated = 0
    /\ peak_memory = 0
    /\ stats = NewStats
    /\ leak_detector = <<>>
    /\ enable_leak_detection = FALSE
    /\ outstanding = <<>>
    /\ mgr_result = "none"

NoFeatures ==
    [has_avx2 |-> FALSE, has_avx512f |-> FALSE, has_avx512vnni |-> FALSE,
     has_fma |-> FALSE, has_sse42 |-> FALSE, has_neon |-> FALSE]

\* no call: the caller holds the dispatcher and has not called it
NoCall == [op |-> "none", dims |-> <<>>, ptrs |-> <<>>, inputs |-> <<>>, before |-> <<>>]

\* no kernel call made yet
NoCallYet ==
    /\ call = NoCall
    /\ out = <<>>
    /\ outcome = "none"

NoGcOp == [op |-> "none", key |-> "", result |-> <<>>]

\* GarbageCollector::new(0), never called
GcUnused ==
    /\ ref_counts = <<>>
    /\ marked_for_gc = <<>>
    /\ collection_threshold = 0
    /\ gc_op = NoGcOp

NoArenaOp == [op |-> "none", size |-> 0, alignment |-> 0, result |-> "none"]

\* no arena: MemoryManager::new() has arena: None, enable_arena: false
ArenaUnused ==
    /\ arena = <<>>
    /\ enable_arena = FALSE
    /\ arena_log = <<>>
    /\ arena_fresh = TRUE
    /\ arena_op = NoArenaOp

NoLedgerOp == [op |-> "none", id |-> 0]

\* nobody calls a MemoryLeakDetector directly
LedgerUnused ==
    /\ ledger = [active_allocations |-> <<>>, allocation_counter |-> 0]
    /\ ledger_ids = <<>>
    /\ ledger_live = <<>>
    /\ ledger_op = NoLedgerOp

NoPoolOp == [op |-> "none", size |-> 0, len |-> 0]

\* nobody calls a MemoryPool directly
PoolUnused ==
    /\ mem_pool = [available |-> <<>>, allocated_count |-> 0, buffer_size |-> 0]
    /\ pool_held = <<>>
    /\ pool_idle = 0
    /\ pool_op = NoPoolOp

\* the threads of the module's free functions
Threads == {1, 2}

NoThreadCall == [fn |-> "none", step |-> 0]

\* GLOBAL_MEMORY_MANAGER as lazy_static builds it, and no thread calling
GlobalUnused ==
    /\ mutex = 0
    /\ global_manager = [pools |-> {}, replaced |-> 0]
    /\ thread_pc = [t \in Threads |-> NoThreadCall]
    /\ thread_calls = [t \in Threads |-> 0]
    /\ thread_seen = [t \in Threads |-> <<>>]

NoBlockOp == [op |-> "none", len |-> 0, alignment |-> 0, granted |-> FALSE, result |-> "none"]

\* no AlignedMemory built
BlockUnused ==
    /\ block = <<>>
    /\ block_op = NoBlockOp

NoPlaceOp == [op |-> "none", size |-> 0, alignment |-> 0, result |-> "none",
              chunk |-> 0, before |-> 0, ptr |-> 0]

\* no arena placed in memory
PlaceUnused ==
    /\ bases = <<>>
    /\ ranges = <<>>
    /\ place_op = NoPlaceOp

\* the components added after the global manager
LateUnused == BlockUnused /\ PlaceUnused

\* the components added after the pool
ExtUnused == GlobalUnused /\ LateUnused

\* the components added around the cache, the manager and the dispatcher
OthersUnused == GcUnused /\ LedgerUnused /\ PoolUnused /\ ExtUnused

\* a scalar dispatcher nobody calls
DispatcherUnused ==
    /\ target_arch = "x86_64"
    /\ cpu_features = NoFeatures
    /\ simd_level = <<>>
    /\ current_level = Scalar
    /\ block_size = DefaultBlockSize
    /\ enable_bounds_check = TRUE
    /\ enable_alignment_check = TRUE
    /\ validate_result = "none"
    /\ NoCallYet

\* ========================================================================
\* SmartCache
\* ========================================================================
Keys == {"k1", "k2", "k3"}
NoKey == "none"

\* data.len() * size_of::<T>()
TensorSize(len) == len * SizeOfT

\* the byte size of the entry stored under key
EntrySize(c, key) == TensorSize(c[key].len)

\* SmartCache::evict_lru on (cache, current_size, access_history)
evict_lru(c, cs, h) ==
    IF h # <<>> /\ Head(h) \in DOMAIN c
    THEN [cache |-> [k \in DOMAIN c \ {Head(h)} |-> c[k]],
          current_size |-> cs - EntrySize(c, Head(h)),
          access_history |-> Tail(h)]
    ELSE [cache |-> c, current_size |-> cs, access_history |-> h]

\* the loop condition of SmartCache::put
NeedEvict(c, cs, tensor_size, budget) ==
    cs + tensor_size > budget /\ DOMAIN c # {}

\* mutant of PutAccount: the replaced entry's size is not subtracted
PutAccountKeepOld(cs, replaced, old_size, tensor_size) == cs + tensor_size

\* current_size after the insert of SmartCache::put: the replaced entry's
\* size is subtracted, then the new size is added
PutAccount(cs, replaced, old_size, tensor_size) ==
    (IF replaced THEN cs - old_size ELSE cs) + tensor_size

\* access_history update of SmartCache::get on a hit
GetTouch(h, key) ==
    Append(IF Position(h, key) # 0 THEN RemoveAt(h, Position(h, key)) ELSE h, key)

\* access_history update of SmartCache::put
PutTouch(h, key) == Append(h, key)

\* SmartCache::new(max_size)
CacheNew ==
    /\ cache = <<>>
    /\ max_size \in {TensorSize(q) : q \in 0..MaxBudget}
    /\ current_size = 0
    /\ access_history = <<>>
    /\ hits = 0
    /\ misses = 0
    /\ clock = 0
    /\ cachePc = "idle"
    /\ put_key = NoKey
    /\ put_len = 0
    /\ last_op = "new"

\* a cache nobody uses (the other components' specifications)
CacheUnused == CacheNew /\ max_size = 0

\* SmartCache::get(key)
Get(key) ==
    /\ cachePc = "idle"
    /\ clock < MaxClock
    /\ clock' = clock + 1
    /\ IF key \in DOMAIN cache
       THEN /\ cache' = [cache EXCEPT ![key].last_access = clock,
                                      ![key].access_count = @ + 1]
            /\ access_history' = GetTouch(access_history, key)
            /\ hits' = hits + 1
            /\ misses' = misses
            /\ last_op' = "get_hit"
       ELSE /\ misses' = misses + 1
            /\ last_op' = "get_miss"
            /\ UNCHANGED <<cache, access_history, hits>>
    /\ UNCHANGED <<max_size, current_size, cachePc, put_key, put_len>>
    /\ UNCHANGED <<mgrVars, configVars, callVars,
                 gcVars, arenaVars, ledgerVars, poolVars, extVars>>

\* SmartCache::put(key, data, ..): entry, tensor_size computed
PutCall(key, len) ==
    /\ cachePc = "idle"
    /\ clock < MaxClock
    /\ cachePc' = "put"
    /\ put_key' = key
    /\ put_len' = len
    /\ UNCHANGED <<cache, max_size, current_size, access_history, hits, misses, clock, last_op>>
    /\ UNCHANGED <<mgrVars, configVars, callVars,
                 gcVars, arenaVars, ledgerVars, poolVars, extVars>>

\* one iteration of the eviction loop of SmartCache::put
PutEvict ==
    /\ cachePc = "put"
    /\ NeedEvict(cache, current_size, TensorSize(put_len), max_size)
    /\ LET r == evict_lru(cache, current_size, access_history) IN
         /\ cache' = r.cache
         /\ current_size' = r.current_size
         /\ access_history' = r.access_history
    /\ UNCHANGED <<max_size, hits, misses, clock, cachePc, put_key, put_len, last_op>>
    /\ UNCHANGED <<mgrVars, configVars, callVars,
                 gcVars, arenaVars, ledgerVars, poolVars, extVars>>

\* the rest of SmartCache::put once the loop has ended: insert and return
PutInsert ==
    /\ cachePc = "put"
    /\ ~NeedEvict(cache, current_size, TensorSize(put_len), max_size)
    /\ LET replaced == put_key \in DOMAIN cache
           old_size == IF replaced THEN EntrySize(cache, put_key) ELSE 0
           tensor   == [len |-> put_len, last_access |-> clock, access_count |-> 0]
       IN
         /\ cache' = [k \in DOMAIN cache \cup {put_key} |->
                         IF k = put_key THEN tensor ELSE cache[k]]
         /\ current_size' = PutAccount(current_size, replaced, old_size, TensorSize(put_len))
         /\ last_op' = IF replaced THEN "put_replace" ELSE "put_new"
    /\ access_history' = PutTouch(access_history, put_key)
    /\ cachePc' = "idle"
    /\ put_key' = NoKey
    /\ put_len' = 0
    /\ clock' = clock + 1
    /\ UNCHANGED <<max_size, hits, misses>>
    /\ UNCHANGED <<mgrVars, configVars, callVars,
                 gcVars, arenaVars, ledgerVars, poolVars, extVars>>

\* SmartCache::clear
Clear ==
    /\ cachePc = "idle"
    /\ clock < MaxClock
    /\ clock' = clock + 1
    /\ cache' = <<>>
    /\ current_size' = 0
    /\ access_history' = <<>>
    /\ hits' = 0
    /\ misses' = 0
    /\ last_op' = "clear"
    /\ UNCHANGED <<max_size, cachePc, put_key, put_len>>
    /\ UNCHANGED <<mgrVars, configVars, callVars,
                 gcVars, arenaVars, ledgerVars, poolVars, extVars>>

NextCache ==
    \/ \E key \in Keys : Get(key)
    \/ \E key \in Keys, len \in 0..MaxLen : PutCall(key, len)
    \/ PutEvict
    \/ PutInsert
    \/ Clear

InitCache == CacheNew /\ ManagerUnused /\ DispatcherUnused /\ ArenaUnused /\ OthersUnused

SpecCache == InitCache /\ [][NextCache]_vars

\* the key evict_lru removes in this state, NoKey when it removes nothing
Victim ==
    IF access_history # <<>> /\ Head(access_history) \in DOMAIN cache
    THEN Head(access_history) ELSE NoKey

\* put is inside its eviction loop and the loop condition holds
Evicting ==
    cachePc = "put" /\ NeedEvict(cache, current_size, TensorSize(put_len), max_size)

\* C1: whenever no put is in progress (so after every put has returned),
\* the bytes accounted do not exceed the budget.
C1_WithinBudget == cachePc = "idle" => current_size <= max_size

\* C2: whenever put evicts an entry, that entry is the one in the cache
\* whose last access (put or successful get) is the oldest.
C2_EvictsOldest ==
    (Evicting /\ Victim # NoKey) =>
        \A k \in DOMAIN cache : cache[Victim].last_access <= cache[k].last_access

\* C3: the eviction loop of put terminates.  An iteration either removes an
\* entry (the cache shrinks) or changes nothing; the loop is deterministic,
\* so it terminates exactly when no iteration that the loop condition
\* admits leaves the state as it was.
C3_PutTerminates ==
    Evicting => evict_lru(cache, current_size, access_history).cache # cache

\* C4: current_size is the sum of the byte sizes of the stored entries
\* (and, being that sum, never went below zero).
C4_SizeAccounting ==
    /\ current_size = SumOver([k \in DOMAIN cache |-> EntrySize(cache, k)], DOMAIN cache)
    /\ current_size >= 0

\* C4 witness: a put has just replaced a key of non-zero size while another
\* entry is stored too.
C4_Witness ==
    /\ cachePc = "idle"
    /\ last_op = "put_replace"
    /\ Cardinality(DOMAIN cache) >= 2
    /\ current_size > 0

\* ========================================================================
\* ArenaAllocator and MemoryChunk
\* ========================================================================

\* align_offset(offset, alignment), in the wrapping arithmetic of a build
\* without overflow checks
align_offset(offset, alignment) ==
    IF alignment = 0 THEN offset
    ELSE (((offset + alignment - 1) % WordModulus) \div alignment) * alignment

\* Layout::from_size_align accepts only a power of two as the alignment
IsPowerOfTwo(n) == n \in {1, 2, 4, 8, 16, 32, 64}

\* MemoryChunk::new(size, alignment): <<>> (Err) or <<chunk>>; granted says
\* whether the system allocator returned a non-null pointer
MemoryChunkNew(size, alignment, granted) ==
    IF IsPowerOfTwo(alignment) /\ size <= IsizeMax - (alignment - 1) /\ granted
    THEN <<[size |-> size, offset |-> 0]>>
    ELSE <<>>

\* MemoryChunk::allocate(size, alignment): <<>> (None) or <<the chunk afterwards>>
MemoryChunkAllocate(chunk, size, alignment) ==
    LET aligned_offset == align_offset(chunk.offset, alignment)
    IN  IF (aligned_offset + size) % WordModulus > chunk.size THEN <<>>
        ELSE <<[chunk EXCEPT !.offset = (aligned_offset + size) % WordModulus]>>

\* an addition of MemoryChunk::allocate or align_offset exceeds usize::MAX: a
\* build with overflow checks panics there
ChunkAllocateOverflows(chunk, size, alignment) ==
    \/ alignment # 0 /\ chunk.offset + alignment >= WordModulus
    \/ align_offset(chunk.offset, alignment) + size >= WordModulus

\* MemoryChunk::is_empty
is_empty(chunk) == chunk.offset = 0

\* ArenaAllocator::new(chunk_size, alignment): <<>> (Err) or <<arena>>;
\* current_chunk is the 0-based index of the source
ArenaAllocatorNew(chunk_size, alignment, granted) ==
    LET initial_chunk == MemoryChunkNew(chunk_size, alignment, granted)
    IN  IF initial_chunk = <<>> THEN <<>>
        ELSE <<[chunks |-> <<initial_chunk[1]>>,
                current_chunk |-> 0,
                chunk_size |-> chunk_size,
                total_allocated |-> 0,
                alignment |-> alignment]>>

\* the scan of the existing chunks left out
FirstFitSkipped(chunks, size, alignment) == 0

\* the first chunk, in Vec order, that can serve the request; 0 when none can
FirstFit(chunks, size, alignment) ==
    LET fits == {i \in 1..Len(chunks) : MemoryChunkAllocate(chunks[i], size, alignment) # <<>>}
    IN  IF fits = {} THEN 0 ELSE CHOOSE i \in fits : \A j \in fits : i <= j

\* self.total_allocated += size, with nothing added
ChargedNothing(total, size) == total

\* self.total_allocated += size
Charged(total, size) == (total + size) % WordModulus

\* ArenaAllocator::allocate(size, alignment) on an arena with at least one
\* chunk: [arena, ok]; ok is FALSE for None
ArenaAllocatorAllocate(a, size, alignment, granted) ==
    LET cur   == a.current_chunk + 1
        here  == MemoryChunkAllocate(a.chunks[cur], size, alignment)
        i     == FirstFit(a.chunks, size, alignment)
        fresh == MemoryChunkNew(Max(a.chunk_size, size), a.alignment, granted)
        placed == IF fresh = <<>> THEN <<>> ELSE MemoryChunkAllocate(fresh[1], size, alignment)
    IN  IF here # <<>>
        THEN [arena |-> [a EXCEPT !.chunks[cur] = here[1],
                                  !.total_allocated = Charged(@, size)],
              ok |-> TRUE]
        ELSE IF i # 0
        THEN [arena |-> [a EXCEPT !.chunks[i] = MemoryChunkAllocate(a.chunks[i], size, alignment)[1],
                                  !.current_chunk = i - 1,
                                  !.total_allocated = Charged(@, size)],
              ok |-> TRUE]
        ELSE IF placed # <<>>
        THEN [arena |-> [a EXCEPT !.chunks = Append(a.chunks, placed[1]),
                                  !.current_chunk = Len(a.chunks),
                                  !.total_allocated = Charged(@, size)],
              ok |-> TRUE]
        ELSE [arena |-> a, ok |-> FALSE]

\* ArenaAllocator::total_allocated
arena_total_allocated(a) == a.total_allocated

\* ArenaAllocator::chunk_count
chunk_count(a) == Len(a.chunks)

\* for chunk in &mut chunks { chunk.offset = 0 }
ZeroOffsets(chunks) == [i \in 1..Len(chunks) |-> [chunks[i] EXCEPT !.offset = 0]]

\* reset that leaves the offsets of the chunks as they are
ArenaAllocatorResetKeepOffsets(a) ==
    [a EXCEPT !.current_chunk = 0, !.total_allocated = 0]

\* ArenaAllocator::reset
ArenaAllocatorReset(a) ==
    [a EXCEPT !.chunks = ZeroOffsets(a.chunks),
              !.current_chunk = 0,
              !.total_allocated = 0]

\* Vec::retain(|chunk| !chunk.is_empty())
RECURSIVE RetainUsed(_)
RetainUsed(chunks) ==
    IF chunks = <<>> THEN <<>>
    ELSE IF is_empty(Head(chunks)) THEN RetainUsed(Tail(chunks))
    ELSE <<Head(chunks)>> \o RetainUsed(Tail(chunks))

\* ArenaAllocator::defragment; granted says whether the system allocator
\* gives the replacement chunk when every chunk was removed
ArenaAllocatorDefragment(a, granted) ==
    LET kept == RetainUsed(a.chunks)
    IN  [a EXCEPT !.chunks =
                      IF kept = <<>> THEN MemoryChunkNew(a.chunk_size, a.alignment, granted)
                      ELSE kept,
                  !.current_chunk = 0]

\* ========================================================================
\* MemoryPool, MemoryLeakDetector and the MemoryManager facade
\* ========================================================================
\* the pool the callers create
PoolNames == {"weights"}

\* a pool name no create_pool call ever used
MissingPools == {"temporary"}

\* MemoryPool::new(name, buffer_size)
PoolNew(buffer_size) ==
    [available |-> <<>>, allocated_count |-> 0, buffer_size |-> buffer_size]

\* allocate that always builds a new buffer and leaves the free list alone
PoolAllocateFresh(pool, size) ==
    [pool EXCEPT !.allocated_count = @ + 1]

\* MemoryPool::allocate(size): the pool afterwards; the buffer handed out
\* always has length size (a reused buffer is cleared and resized)
PoolAllocate(pool, size) ==
    IF pool.available # <<>>
    THEN [pool EXCEPT !.available = SubSeq(@, 1, Len(@) - 1),
                      !.allocated_count = @ + 1]
    ELSE [pool EXCEPT !.allocated_count = @ + 1]

\* MemoryPool::deallocate(buffer), buffer given by its length
PoolDeallocate(pool, len) ==
    [pool EXCEPT !.available = Append(@, len),
                 !.allocated_count = Max(@ - 1, 0)]

\* MemoryLeakDetector::new()
DetectorNew == [active_allocations |-> <<>>, allocation_counter |-> 0]

\* track_allocation handing out the same id again (no fetch_add)
track_allocation_same_id(d, size) ==
    [active_allocations |->
        [id \in DOMAIN d.active_allocations \cup {d.allocation_counter} |->
            IF id = d.allocation_counter THEN size ELSE d.active_allocations[id]],
     allocation_counter |-> d.allocation_counter]

\* MemoryLeakDetector::track_allocation(size): the detector afterwards
\* (the id handed back is the counter before the call)
track_allocation(d, size) ==
    [active_allocations |->
        [id \in DOMAIN d.active_allocations \cup {d.allocation_counter} |->
            IF id = d.allocation_counter THEN size ELSE d.active_allocations[id]],
     allocation_counter |-> d.allocation_counter + 1]

\* MemoryLeakDetector::track_deallocation(id)
track_deallocation(d, id) ==
    [d EXCEPT !.active_allocations =
        [i \in DOMAIN d.active_allocations \ {id} |-> d.active_allocations[i]]]

\* MemoryLeakDetector::leaked_memory_bytes
leaked_memory_bytes(d) == SumOver(d.active_allocations, DOMAIN d.active_allocations)

\* MemoryLeakDetector::detect_leaks, as the set of ids reported
detect_leaks(d) == DOMAIN d.active_allocations

\* MemoryManager::get_leaked_memory
get_leaked_memory ==
    IF leak_detector = <<>> THEN 0 ELSE leaked_memory_bytes(leak_detector[1])

\* MemoryManager::get_leak_report: <<>> (None) or <<ids reported>>
get_leak_report ==
    IF leak_detector = <<>> THEN <<>> ELSE <<detect_leaks(leak_detector[1])>>

\* what the leak-tracking block of MemoryManager::allocate does to the detector
AllocateTrack(ld, byte_size) ==
    IF ld = <<>> THEN ld ELSE <<track_allocation(ld[1], byte_size)>>

\* what the leak-tracking block of MemoryManager::deallocate does to the
\* detector: the block is empty, track_deallocation is never called
DeallocateTrack(ld, byte_size) == ld

\* MemoryManager::update_stats on the given manager fields
update_stats(ps, total, peak, st) ==
    LET buffer_count      == SumOver([nm \in DOMAIN ps |-> ps[nm].allocated_count], DOMAIN ps)
        available_buffers == SumOver([nm \in DOMAIN ps |-> Len(ps[nm].available)], DOMAIN ps)
    IN  [total_allocated |-> total,
         available |-> available_buffers * SizeOfT,
         buffer_count |-> buffer_count,
         fragmentation_ratio |->
             IF buffer_count > 0 THEN <<available_buffers, buffer_count>> ELSE <<0, 1>>,
         peak_memory |-> peak,
         current_memory |-> total,
         allocation_count |-> st.allocation_count,
         deallocation_count |-> st.deallocation_count,
         average_allocation_size |->
             IF st.allocation_count > 0 THEN <<total, st.allocation_count>> ELSE <<0, 1>>]

\* MemoryManager::with_advanced_features(_, false, enable_leak_detection, _)
ManagerNew ==
    /\ pools = <<>>
    /\ total_allocated = 0
    /\ peak_memory = 0
    /\ stats = NewStats
    /\ enable_leak_detection \in BOOLEAN
    /\ leak_detector = IF enable_leak_detection THEN <<DetectorNew>> ELSE <<>>
    /\ outstanding = [l \in 0..MaxBufLen |-> 0]
    /\ mgr_result = "none"

\* MemoryManager::create_pool(name, buffer_size)
CreatePool(name, buffer_size) ==
    /\ pools' = [nm \in DOMAIN pools \cup {name} |->
                    IF nm = name THEN PoolNew(buffer_size) ELSE pools[nm]]
    /\ mgr_result' = "created"
    /\ UNCHANGED <<total_allocated, peak_memory, stats, leak_detector,
                   enable_leak_detection, outstanding>>
    /\ UNCHANGED <<cacheVars, configVars, callVars,
                 gcVars, arenaVars, ledgerVars, poolVars, extVars>>

\* the Some(pool) branch of MemoryManager::allocate
AllocateFrom(pool_name, size) ==
    LET byte_size == size * SizeOfT
        total     == total_allocated + byte_size
        peak      == Max(peak_memory, total)
        ps        == [pools EXCEPT ![pool_name] = PoolAllocate(@, size)]
        st        == [stats EXCEPT !.allocation_count = @ + 1]
    IN  /\ pools' = ps
        /\ total_allocated' = total
        /\ peak_memory' = peak
        /\ leak_detector' = AllocateTrack(leak_detector, byte_size)
        /\ stats' = update_stats(ps, total, peak, st)
        /\ outstanding' = [outstanding EXCEPT ![size] = @ + 1]
        /\ mgr_result' = "Ok"

\* allocate counting the call before it looks the pool up
AllocateCountingFirst(pool_name, size) ==
    /\ stats.allocation_count < MaxAllocs
    /\ IF pool_name \in DOMAIN pools
       THEN AllocateFrom(pool_name, size)
       ELSE /\ mgr_result' = "Err"
            /\ stats' = [stats EXCEPT !.allocation_count = @ + 1]
            /\ UNCHANGED <<pools, total_allocated, peak_memory, leak_detector, outstanding>>
    /\ UNCHANGED enable_leak_detection
    /\ UNCHANGED <<cacheVars, configVars, callVars,
                 gcVars, arenaVars, ledgerVars, poolVars, extVars>>

\* MemoryManager::allocate(pool_name, size)
Allocate(pool_name, size) ==
    /\ stats.allocation_count < MaxAllocs
    /\ IF pool_name \in DOMAIN pools
       THEN AllocateFrom(pool_name, size)
       ELSE /\ mgr_result' = "Err"
            /\ UNCHANGED <<pools, total_allocated, peak_memory, leak_detector,
                           stats, outstanding>>
    /\ UNCHANGED enable_leak_detection
    /\ UNCHANGED <<cacheVars, configVars, callVars,
                 gcVars, arenaVars, ledgerVars, poolVars, extVars>>

\* MemoryManager::deallocate(pool_name, buffer): the caller gives back one of
\* the buffers it holds, of length len; the buffer is consumed either way
Deallocate(pool_name, len) ==
    /\ outstanding[len] > 0
    /\ outstanding' = [outstanding EXCEPT ![len] = @ - 1]
    /\ IF pool_name \in DOMAIN pools
       THEN LET size  == len * SizeOfT
                total == Max(total_allocated - size, 0)
                ps    == [pools EXCEPT ![pool_name] = PoolDeallocate(@, len)]
                st    == [stats EXCEPT !.deallocation_count = @ + 1]
            IN  /\ pools' = ps
                /\ total_allocated' = total
                /\ leak_detector' = DeallocateTrack(leak_detector, size)
                /\ stats' = update_stats(ps, total, peak_memory, st)
                /\ mgr_result' = "Ok"
       ELSE /\ mgr_result' = "Err"
            /\ UNCHANGED <<pools, total_allocated, leak_detector, stats>>
    /\ UNCHANGED <<peak_memory, enable_leak_detection>>
    /\ UNCHANGED <<cacheVars, configVars, callVars,
                 gcVars, arenaVars, ledgerVars, poolVars, extVars>>

\* arena_chunk_size handed to with_advanced_features: room for two elements
ManagerChunkSize == 8

\* the arena of a manager serves at most this many bytes in all
MaxArenaBytes == 4

\* std::mem::align_of::<T>() for T = f32
AlignOfT == 4

\* the alignment with_advanced_features builds the arena with
ArenaAlignment == 64

\* MemoryManager::with_advanced_features(_, enable_arena, _, arena_chunk_size):
\* the arena (explored without leak detection); the callers of a stand-alone
\* arena keep no log here
ManagerArenaNew ==
    /\ enable_arena \in BOOLEAN
    /\ enable_arena => ~enable_leak_detection
    /\ arena = IF enable_arena
               THEN ArenaAllocatorNew(ManagerChunkSize, ArenaAlignment, TRUE)
               ELSE <<>>
    /\ arena_log = <<>>
    /\ arena_fresh = TRUE
    /\ arena_op = NoArenaOp

\* MemoryManager::arena_allocate(size); a call on an arena left without a
\* chunk indexes chunks[current_chunk] and panics
ArenaAllocate(size) ==
    /\ IF ~enable_arena \/ arena = <<>>
       THEN /\ mgr_result' = "Err"
            /\ UNCHANGED <<arena, total_allocated, stats>>
       ELSE IF arena[1].chunks = <<>>
       THEN /\ mgr_result' = "panicked"
            /\ UNCHANGED <<arena, total_allocated, stats>>
       ELSE \E granted \in BOOLEAN :
            LET byte_size == size * SizeOfT
                r         == ArenaAllocatorAllocate(arena[1], byte_size, AlignOfT, granted)
                total     == total_allocated + byte_size
            IN  /\ arena[1].total_allocated + byte_size <= MaxArenaBytes
                /\ IF r.ok
                   THEN /\ arena' = <<r.arena>>
                        /\ total_allocated' = total
                        /\ stats' = update_stats(pools, total, peak_memory, stats)
                        /\ mgr_result' = "Ok"
                   ELSE /\ mgr_result' = "Err"
                        /\ UNCHANGED <<arena, total_allocated, stats>>
    /\ UNCHANGED <<pools, peak_memory, leak_detector, enable_leak_detection, outstanding>>
    /\ UNCHANGED <<enable_arena, arena_log, arena_fresh, arena_op>>
    /\ UNCHANGED <<cacheVars, configVars, callVars, gcVars, ledgerVars, poolVars,
                   extVars>>

\* MemoryManager::reset_arena: the offsets and current_chunk are reset in
\* place (the arena's own total_allocated is not)
ResetArena ==
    /\ IF arena # <<>>
       THEN /\ arena' = <<[arena[1] EXCEPT !.chunks = ZeroOffsets(@), !.current_chunk = 0]>>
            /\ total_allocated' = 0
            /\ stats' = update_stats(pools, 0, peak_memory, stats)
       ELSE UNCHANGED <<arena, total_allocated, stats>>
    /\ mgr_result' = "done"
    /\ UNCHANGED <<pools, peak_memory, leak_detector, enable_leak_detection, outstanding>>
    /\ UNCHANGED <<enable_arena, arena_log, arena_fresh, arena_op>>
    /\ UNCHANGED <<cacheVars, configVars, callVars, gcVars, ledgerVars, poolVars,
                   extVars>>

\* MemoryPool::clear
PoolClear(pool) == [pool EXCEPT !.available = <<>>, !.allocated_count = 0]

\* MemoryManager::clear_all; the buffers the callers hold stay theirs
ClearAll ==
    LET ps == [nm \in DOMAIN pools |-> PoolClear(pools[nm])]
    IN  /\ pools' = ps
        /\ total_allocated' = 0
        /\ stats' = update_stats(ps, 0, peak_memory, stats)
        /\ mgr_result' = "done"
        /\ UNCHANGED <<peak_memory, leak_detector, enable_leak_detection, outstanding>>
        /\ UNCHANGED <<cacheVars, configVars, callVars,
                       gcVars, arenaVars, ledgerVars, poolVars, extVars>>

\* pool.available.retain(|buffer| !buffer.is_empty()), buffers given by length
RetainNonEmpty(pool) ==
    [pool EXCEPT !.available = SelectSeq(@, LAMBDA len : len # 0)]

\* MemoryManager::defragment_pools
DefragmentPools ==
    \E granted \in BOOLEAN :
        LET ps == [nm \in DOMAIN pools |-> RetainNonEmpty(pools[nm])]
        IN  /\ pools' = ps
            /\ arena' = IF arena # <<>>
                        THEN <<ArenaAllocatorDefragment(arena[1], granted)>>
                        ELSE arena
            /\ stats' = update_stats(ps, total_allocated, peak_memory, stats)
            /\ mgr_result' = "done"
            /\ UNCHANGED <<total_allocated, peak_memory, leak_detector,
                           enable_leak_detection, outstanding>>
            /\ UNCHANGED <<enable_arena, arena_log, arena_fresh, arena_op>>
            /\ UNCHANGED <<cacheVars, configVars, callVars, gcVars, ledgerVars, poolVars,
                   extVars>>

NextManager ==
    \/ \E name \in PoolNames : CreatePool(name, 512)
    \/ \E name \in PoolNames \cup MissingPools, size \in 0..MaxBufLen : Allocate(name, size)
    \/ \E name \in PoolNames \cup MissingPools, len \in 0..MaxBufLen : Deallocate(name, len)
    \/ \E size \in 0..MaxBufLen : ArenaAllocate(size)
    \/ ResetArena
    \/ ClearAll
    \/ DefragmentPools

InitManager == ManagerNew /\ ManagerArenaNew /\ CacheUnused /\ DispatcherUnused /\ OthersUnused

SpecManager == InitManager /\ [][NextManager]_vars

\* the bytes of the buffers allocated and not yet deallocated
OutstandingBytes ==
    SumOver([l \in DOMAIN outstanding |-> outstanding[l] * l * SizeOfT], DOMAIN outstanding)

\* C5: with leak detection enabled, get_leaked_memory() is the byte size of
\* the buffers allocated and not yet deallocated, and the leak report is
\* empty once every buffer has been given back.
C5_LeaksMatchOutstanding ==
    leak_detector # <<>> =>
        /\ get_leaked_memory = OutstandingBytes
        /\ (OutstandingBytes = 0 /\ \A l \in DOMAIN outstanding : outstanding[l] = 0)
              => get_leak_report = <<{}>>

\* ========================================================================
\* CpuFeatures, SimdLevel and the construction of CpuSimdOps
\* ========================================================================
Levels == {Scalar, Neon, Sse42, Avx2, Avx2FMA, Avx512F, Avx512VNNI}

\* every value of the struct CpuFeatures (its six fields are public)
AllFeatures ==
    [has_avx2 : BOOLEAN, has_avx512f : BOOLEAN, has_avx512vnni : BOOLEAN,
     has_fma : BOOLEAN, has_sse42 : BOOLEAN, has_neon : BOOLEAN]

\* CpuFeatures::best_simd_level
best_simd_level(f) ==
    IF f.has_avx512vnni THEN Avx512VNNI
    ELSE IF f.has_avx512f THEN Avx512F
    ELSE IF f.has_avx2 /\ f.has_fma THEN Avx2FMA
    ELSE IF f.has_avx2 THEN Avx2
    ELSE IF f.has_sse42 THEN Sse42
    ELSE IF f.has_neon THEN Neon
    ELSE Scalar

\* SimdLevel::required_alignment, in bytes
required_alignment(level) ==
    IF level \in {Avx512F, Avx512VNNI} THEN 64
    ELSE IF level \in {Avx2, Avx2FMA} THEN 32
    ELSE IF level = Sse42 THEN 16
    ELSE IF level = Neon THEN 16
    ELSE 8

\* SimdLevel::vector_width, in f32 lanes
vector_width(level) ==
    IF level \in {Avx512F, Avx512VNNI} THEN 16
    ELSE IF level \in {Avx2, Avx2FMA} THEN 8
    ELSE IF level = Sse42 THEN 4
    ELSE IF level = Neon THEN 4
    ELSE 1

\* CpuSimdOps::validate_configuration for a dispatcher of this level and features
validate_configuration(level, f) ==
    IF level \in {Avx512F, Avx512VNNI} THEN (IF f.has_avx512f THEN "Ok" ELSE "Err")
    ELSE IF level \in {Avx2, Avx2FMA} THEN (IF f.has_avx2 THEN "Ok" ELSE "Err")
    ELSE IF level = Sse42 THEN (IF f.has_sse42 THEN "Ok" ELSE "Err")
    ELSE "Ok"

\* config.simd_level.unwrap_or(config.cpu_features.best_simd_level())
LevelOf(opt, f) == IF opt # <<>> THEN opt[1] ELSE best_simd_level(f)

\* Option<SimdLevel>
LevelOptions == {<<>>} \cup {<<l>> : l \in Levels}

\* CpuSimdOps::new(config) on any CPU, the level left to auto-detection
TierNew ==
    /\ target_arch = "x86_64"
    /\ cpu_features \in AllFeatures
    /\ simd_level = <<>>
    /\ current_level = LevelOf(simd_level, cpu_features)
    /\ block_size = DefaultBlockSize
    /\ enable_bounds_check = TRUE
    /\ enable_alignment_check = TRUE
    /\ validate_result = "none"

\* CpuSimdOps::new(config) again, with another simd_level on the same CPU
OpsNew(opt) ==
    /\ simd_level' = opt
    /\ current_level' = LevelOf(opt, cpu_features)
    /\ validate_result' = "none"
    /\ UNCHANGED <<target_arch, cpu_features, block_size, enable_bounds_check,
                   enable_alignment_check>>
    /\ UNCHANGED <<cacheVars, mgrVars, callVars,
                 gcVars, arenaVars, ledgerVars, poolVars, extVars>>

\* CpuSimdOps::validate_configuration
ValidateConfiguration ==
    /\ validate_result' = validate_configuration(current_level, cpu_features)
    /\ UNCHANGED <<target_arch, cpu_features, simd_level, current_level, block_size,
                   enable_bounds_check, enable_alignment_check>>
    /\ UNCHANGED <<cacheVars, mgrVars, callVars,
                 gcVars, arenaVars, ledgerVars, poolVars, extVars>>

NextTier ==
    \/ \E opt \in LevelOptions : OpsNew(opt)
    \/ ValidateConfiguration

InitTier == TierNew /\ NoCallYet /\ CacheUnused /\ ManagerUnused /\ ArenaUnused /\ OthersUnused

SpecTier == InitTier /\ [][NextTier]_vars

\* the flags a tier needs: the flag the tier is named for, and the
\* prerequisite validate_configuration and test_simd_level_best ask of it
Requires(level, f) ==
    IF level = Avx512VNNI THEN f.has_avx512vnni /\ f.has_avx512f
    ELSE IF level = Avx512F THEN f.has_avx512f
    ELSE IF level = Avx2FMA THEN f.has_avx2 /\ f.has_fma
    ELSE IF level = Avx2 THEN f.has_avx2
    ELSE IF level = Sse42 THEN f.has_sse42
    ELSE IF level = Neon THEN f.has_neon
    ELSE TRUE

\* the greatest tier, in the enum order, whose flags are all set
GreatestSupported(f) ==
    CHOOSE l \in Levels : Requires(l, f) /\ \A l2 \in Levels : Requires(l2, f) => l2 <= l

\* C6: a dispatcher built with the auto-detected level (simd_level = None)
\* runs at the greatest tier whose prerequisite flags are all set, Scalar
\* when none is, and its validate_configuration succeeds.
C6_BestTier ==
    simd_level = <<>> =>
        /\ current_level = GreatestSupported(cpu_features)
        /\ validate_result \in {"none", "Ok"}

\* ========================================================================
\* SimdSafety and the matrix kernels of CpuSimdOps
\* ========================================================================
\* A slice is [ptr, data]: ptr is the address of its first element modulo 64,
\* data its elements. Element i of the source (0-based) is data[i + 1].
\* Entries are integers, on which f32 arithmetic (fused or not) is exact.
\* A kernel run is [c, st]: the output buffer and "ok", or how the run ended:
\* "panicked" (a checked index out of range), "faulted" (an access trapped),
\* "undefined" (an access outside a slice went through), "diverged".

\* usize::saturating_mul, usize::saturating_add
SatMul(x, y) == IF x * y > UsizeMax THEN UsizeMax ELSE x * y
SatAdd(x, y) == IF x + y > UsizeMax THEN UsizeMax ELSE x + y

\* SimdSafety::check_alignment
check_alignment(ptr, alignment) ==
    IF enable_alignment_check /\ ptr % alignment # 0 THEN "Err" ELSE "Ok"

\* SimdSafety::check_bounds
check_bounds(len, required_len) ==
    IF enable_bounds_check /\ len < required_len THEN "Err" ELSE "Ok"

\* SimdSafety::validate_matrix_dims
validate_matrix_dims(m, n, k) ==
    IF m = 0 \/ n = 0 \/ k = 0 THEN "Err"
    ELSE IF SatAdd(SatMul(m, k), SatMul(k, n)) > UsizeMax \div SizeOfF32 THEN "Err"
    ELSE "Ok"

\* slice::fill
Fill(len, v) == [x \in 1..len |-> v]

\* A vector load or store of `width` lanes through a raw pointer at element
\* `index` of a slice. Outside the slice, or at an address that is not a
\* multiple of `align` for an aligned instruction, the access is undefined
\* behaviour: with ub = "fault" it traps; with ub = "proceed" the misaligned
\* access goes through as an unaligned one and the access outside the slice
\* touches foreign memory.
VecAccess(ptr, len, index, width, align, ub) ==
    IF index + width > len
    THEN (IF ub = "fault" THEN "faulted" ELSE "undefined")
    ELSE IF (ptr + index * SizeOfF32) % align # 0
    THEN (IF ub = "fault" THEN "faulted" ELSE "ok")
    ELSE "ok"

RECURSIVE Dot(_, _, _, _, _)
\* sum += a[i * k + k_idx] * b[k_idx * n + j] for k_idx in k_idx..k_end
Dot(p, i, j, k_idx, k_end) ==
    IF k_idx >= k_end THEN 0
    ELSE p.a[i * p.k + k_idx + 1] * p.b[k_idx * p.n + j + 1]
         + Dot(p, i, j, k_idx + 1, k_end)

\* the scalar element update: the checked indexing of a, b and c, then
\* c[i * n + j] += sum
ScalarCell(r, p, i, j, k_block, k_end) ==
    IF r.st # "ok" THEN r
    ELSE IF \E k_idx \in k_block..(k_end - 1) :
                i * p.k + k_idx >= Len(p.a) \/ k_idx * p.n + j >= Len(p.b)
    THEN [r EXCEPT !.st = "panicked"]
    ELSE IF i * p.n + j >= Len(r.c) THEN [r EXCEPT !.st = "panicked"]
    ELSE [r EXCEPT !.c[i * p.n + j + 1] = @ + Dot(p, i, j, k_block, k_end)]

RECURSIVE VecKLoop(_, _, _, _, _)
\* the k_idx loop of the full-width branch: a[i * k + k_idx] is a checked
\* index, the load of b at k_idx * n + j a raw vector load
VecKLoop(p, i, j, k_idx, k_end) ==
    IF k_idx >= k_end THEN "ok"
    ELSE IF i * p.k + k_idx >= Len(p.a) THEN "panicked"
    ELSE LET s == VecAccess(p.b_ptr, Len(p.b), k_idx * p.n + j, p.width, p.align, p.ub)
         IN IF s # "ok" THEN s ELSE VecKLoop(p, i, j, k_idx + 1, k_end)

\* the full-width branch: the k_idx loop, then the load, add and store of
\* `width` lanes of c at i * n + j
VectorCell(r, p, i, j, k_block, k_end) ==
    IF r.st # "ok" THEN r
    ELSE LET ks == VecKLoop(p, i, j, k_block, k_end)
             cs == VecAccess(p.c_ptr, Len(r.c), i * p.n + j, p.width, p.align, p.ub)
             lo == i * p.n + j + 1
         IN IF ks # "ok" THEN [r EXCEPT !.st = ks]
            ELSE IF cs # "ok" THEN [r EXCEPT !.st = cs]
            ELSE [r EXCEPT !.c = [x \in 1..Len(r.c) |->
                     IF x >= lo /\ x < lo + p.width
                     THEN r.c[x] + Dot(p, i, j + (x - lo), k_block, k_end)
                     ELSE r.c[x]]]

RECURSIVE JLoopScalar(_, _, _, _, _, _, _)
\* for j in j..j_end, element by element
JLoopScalar(r, p, i, j, j_end, k_block, k_end) ==
    IF j >= j_end \/ r.st # "ok" THEN r
    ELSE JLoopScalar(ScalarCell(r, p, i, j, k_block, k_end), p, i, j + 1, j_end,
                     k_block, k_end)

RECURSIVE JLoopSimd(_, _, _, _, _, _, _)
\* for j in (j..j_end).step_by(SIMD_WIDTH): a full vector, or the remaining
\* elements with scalar code
JLoopSimd(r, p, i, j, j_end, k_block, k_end) ==
    IF j >= j_end \/ r.st # "ok" THEN r
    ELSE LET remaining == Min(j_end - j, p.width)
             r2 == IF remaining = p.width
                   THEN VectorCell(r, p, i, j, k_block, k_end)
                   ELSE JLoopScalar(r, p, i, j, j + remaining, k_block, k_end)
         IN JLoopSimd(r2, p, i, j + p.width, j_end, k_block, k_end)

RECURSIVE ILoop(_, _, _, _, _, _, _, _)
\* for i in i..i_end; p.width = 0 is the scalar kernel, which has no vector branch
ILoop(r, p, i, i_end, j_block, j_end, k_block, k_end) ==
    IF i >= i_end \/ r.st # "ok" THEN r
    ELSE LET r2 == IF p.width = 0
                   THEN JLoopScalar(r, p, i, j_block, j_end, k_block, k_end)
                   ELSE JLoopSimd(r, p, i, j_block, j_end, k_block, k_end)
         IN ILoop(r2, p, i + 1, i_end, j_block, j_end, k_block, k_end)

RECURSIVE KBlockLoop(_, _, _, _, _)
\* for k_block in (k_block..k).step_by(block_size)
KBlockLoop(r, p, i_block, j_block, k_block) ==
    IF k_block >= p.k \/ r.st # "ok" THEN r
    ELSE KBlockLoop(ILoop(r, p, i_block, Min(i_block + p.block_size, p.m),
                          j_block, Min(j_block + p.block_size, p.n),
                          k_block, Min(k_block + p.block_size, p.k)),
                    p, i_block, j_block, k_block + p.block_size)

RECURSIVE JBlockLoop(_, _, _, _)
\* for j_block in (j_block..n).step_by(block_size)
JBlockLoop(r, p, i_block, j_block) ==
    IF j_block >= p.n \/ r.st # "ok" THEN r
    ELSE JBlockLoop(KBlockLoop(r, p, i_block, j_block, 0), p, i_block,
                    j_block + p.block_size)

RECURSIVE IBlockLoop(_, _, _)
\* for i_block in (i_block..m).step_by(block_size)
IBlockLoop(r, p, i_block) ==
    IF i_block >= p.m \/ r.st # "ok" THEN r
    ELSE IBlockLoop(JBlockLoop(r, p, i_block, 0), p, i_block + p.block_size)

\* the body the four matmul kernels share: c.fill(0.0), then the blocked
\* loop nest; step_by(0) panics
MatmulKernel(a, b, c, m, n, k, width, align, ub) ==
    LET p == [a |-> a.data, b |-> b.data, b_ptr |-> b.ptr, c_ptr |-> c.ptr,
              m |-> m, n |-> n, k |-> k, block_size |-> block_size,
              width |-> width, align |-> align, ub |-> ub]
        r == [c |-> Fill(Len(c.data), 0), st |-> "ok"]
    IN IF block_size = 0 THEN [r EXCEPT !.st = "panicked"]
       ELSE IBlockLoop(r, p, 0)

\* CpuSimdOps::matmul_scalar
matmul_scalar(a, b, c, m, n, k) == MatmulKernel(a, b, c, m, n, k, 0, 1, "proceed")

\* CpuSimdOps::matmul_avx512: SIMD_WIDTH 16, _mm512_load_ps / _mm512_store_ps
\* (64-byte aligned accesses)
matmul_avx512(a, b, c, m, n, k, ub) == MatmulKernel(a, b, c, m, n, k, 16, 64, ub)

\* CpuSimdOps::matmul_avx2: SIMD_WIDTH 8, _mm256_loadu_ps / _mm256_storeu_ps
matmul_avx2(a, b, c, m, n, k, ub) == MatmulKernel(a, b, c, m, n, k, 8, 1, ub)

\* CpuSimdOps::matmul_neon: SIMD_WIDTH 4, vld1q_f32 / vst1q_f32
matmul_neon(a, b, c, m, n, k, ub) == MatmulKernel(a, b, c, m, n, k, 4, 1, ub)

\* the match on current_level, as the build for target_arch compiles it:
\* "avx512", "avx2", "neon", or "scalar" for the `_` arm
Arm ==
    IF target_arch = "x86_64" /\ current_level \in {Avx512F, Avx512VNNI} THEN "avx512"
    ELSE IF target_arch = "x86_64" /\ current_level \in {Avx2, Avx2FMA} THEN "avx2"
    ELSE IF target_arch = "aarch64" /\ current_level = Neon THEN "neon"
    ELSE "scalar"

\* the alignment the dispatcher checks before the arm's kernel
ArmAlignment == IF Arm = "avx512" THEN 64 ELSE IF Arm = "avx2" THEN 32 ELSE 16

\* CpuSimdOps::matmul
matmul(a, b, c, m, n, k, ub) ==
    IF validate_matrix_dims(m, n, k) = "Err" THEN matmul_scalar(a, b, c, m, n, k)
    ELSE IF check_bounds(Len(a.data), m * k) = "Err" THEN matmul_scalar(a, b, c, m, n, k)
    ELSE IF check_bounds(Len(b.data), k * n) = "Err" THEN matmul_scalar(a, b, c, m, n, k)
    ELSE IF check_bounds(Len(c.data), m * n) = "Err" THEN matmul_scalar(a, b, c, m, n, k)
    ELSE IF Arm = "scalar" THEN matmul_scalar(a, b, c, m, n, k)
    ELSE IF \/ check_alignment(a.ptr, ArmAlignment) = "Err"
            \/ check_alignment(b.ptr, ArmAlignment) = "Err"
            \/ check_alignment(c.ptr, ArmAlignment) = "Err"
    THEN matmul_scalar(a, b, c, m, n, k)
    ELSE IF Arm = "avx512" THEN matmul_avx512(a, b, c, m, n, k, ub)
    ELSE IF Arm = "avx2" THEN matmul_avx2(a, b, c, m, n, k, ub)
    ELSE matmul_neon(a, b, c, m, n, k, ub)

\* ------------------------------------------------------------------------
\* matvec
\* ------------------------------------------------------------------------
RECURSIVE MatvecChunks(_, _, _, _)
\* for chunk in chunk..chunks: the vector loads of a at i * n + j and of x at j
MatvecChunks(p, i, chunk, chunks) ==
    IF chunk >= chunks THEN "ok"
    ELSE LET j == chunk * p.width
             sa == VecAccess(p.a_ptr, Len(p.a), i * p.n + j, p.width, p.align, p.ub)
             sx == VecAccess(p.x_ptr, Len(p.x), j, p.width, p.align, p.ub)
         IN IF sa # "ok" THEN sa
            ELSE IF sx # "ok" THEN sx
            ELSE MatvecChunks(p, i, chunk + 1, chunks)

RECURSIVE RowDot(_, _, _)
\* sum of a[i * n + j] * x[j] for j in j..n: the lanes of sum_vec added up,
\* plus the remaining elements
RowDot(p, i, j) ==
    IF j >= p.n THEN 0
    ELSE p.a[i * p.n + j + 1] * p.x[j + 1] + RowDot(p, i, j + 1)

RECURSIVE MatvecRows(_, _, _)
\* for i in i..m; p.width = 0 is the scalar kernel (no chunks)
MatvecRows(r, p, i) ==
    IF i >= p.m \/ r.st # "ok" THEN r
    ELSE LET chunks == IF p.width = 0 THEN 0 ELSE p.n \div p.width
             vs == MatvecChunks(p, i, 0, chunks)
             r2 == IF vs # "ok" THEN [r EXCEPT !.st = vs]
                   ELSE IF \E j \in (chunks * p.width)..(p.n - 1) :
                               i * p.n + j >= Len(p.a) \/ j >= Len(p.x)
                   THEN [r EXCEPT !.st = "panicked"]
                   ELSE IF i >= Len(r.c) THEN [r EXCEPT !.st = "panicked"]
                   ELSE [r EXCEPT !.c[i + 1] = RowDot(p, i, 0)]
         IN MatvecRows(r2, p, i + 1)

\* the body the four matvec kernels share
MatvecKernel(a, x, y, m, n, width, align, ub) ==
    MatvecRows([c |-> y.data, st |-> "ok"],
               [a |-> a.data, x |-> x.data, a_ptr |-> a.ptr, x_ptr |-> x.ptr,
                m |-> m, n |-> n, width |-> width, align |-> align, ub |-> ub], 0)

\* CpuSimdOps::matvec_scalar
matvec_scalar(a, x, y, m, n) == MatvecKernel(a, x, y, m, n, 0, 1, "proceed")

\* CpuSimdOps::matvec_avx512: _mm512_load_ps on a and x
matvec_avx512(a, x, y, m, n, ub) == MatvecKernel(a, x, y, m, n, 16, 64, ub)

\* CpuSimdOps::matvec_avx2: _mm256_loadu_ps
matvec_avx2(a, x, y, m, n, ub) == MatvecKernel(a, x, y, m, n, 8, 1, ub)

\* CpuSimdOps::matvec_neon: vld1q_f32
matvec_neon(a, x, y, m, n, ub) == MatvecKernel(a, x, y, m, n, 4, 1, ub)

\* CpuSimdOps::matvec
matvec(a, x, y, m, n, ub) ==
    IF m = 0 \/ n = 0 THEN [c |-> y.data, st |-> "ok"]
    ELSE IF check_bounds(Len(a.data), m * n) = "Err" THEN matvec_scalar(a, x, y, m, n)
    ELSE IF check_bounds(Len(x.data), n) = "Err" THEN matvec_scalar(a, x, y, m, n)
    ELSE IF check_bounds(Len(y.data), m) = "Err" THEN matvec_scalar(a, x, y, m, n)
    ELSE IF Arm = "scalar" THEN matvec_scalar(a, x, y, m, n)
    ELSE IF \/ check_alignment(a.ptr, ArmAlignment) = "Err"
            \/ check_alignment(x.ptr, ArmAlignment) = "Err"
            \/ check_alignment(y.ptr, ArmAlignment) = "Err"
    THEN matvec_scalar(a, x, y, m, n)
    ELSE IF Arm = "avx512" THEN matvec_avx512(a, x, y, m, n, ub)
    ELSE IF Arm = "avx2" THEN matvec_avx2(a, x, y, m, n, ub)
    ELSE matvec_neon(a, x, y, m, n, ub)

\* ------------------------------------------------------------------------
\* add_bias
\* ------------------------------------------------------------------------
RECURSIVE AddBiasTail(_, _, _, _)
\* while j < cols { matrix[i * cols + j] += bias[j]; j += 1 }
AddBiasTail(r, p, i, j) ==
    IF j >= p.cols \/ r.st # "ok" THEN r
    ELSE IF i * p.cols + j >= Len(r.c) \/ j >= Len(p.bias)
    THEN [r EXCEPT !.st = "panicked"]
    ELSE AddBiasTail([r EXCEPT !.c[i * p.cols + j + 1] = @ + p.bias[j + 1]], p, i, j + 1)

RECURSIVE AddBiasChunks(_, _, _, _)
\* while j + SIMD_WIDTH <= cols { load, load, add, store }, then the remaining
\* elements; p.width = 0 is the scalar kernel
AddBiasChunks(r, p, i, j) ==
    IF r.st # "ok" THEN r
    ELSE IF p.width = 0 \/ j + p.width > p.cols THEN AddBiasTail(r, p, i, j)
    ELSE LET sm == VecAccess(p.matrix_ptr, Len(r.c), i * p.cols + j, p.width, p.align, p.ub)
             sb == VecAccess(p.bias_ptr, Len(p.bias), j, p.width, p.align, p.ub)
             lo == i * p.cols + j + 1
         IN IF sm # "ok" THEN [r EXCEPT !.st = sm]
            ELSE IF sb # "ok" THEN [r EXCEPT !.st = sb]
            ELSE AddBiasChunks(
                     [r EXCEPT !.c = [x \in 1..Len(r.c) |->
                         IF x >= lo /\ x < lo + p.width
                         THEN r.c[x] + p.bias[j + (x - lo) + 1]
                         ELSE r.c[x]]],
                     p, i, j + p.width)

RECURSIVE AddBiasRows(_, _, _)
\* for i in i..rows
AddBiasRows(r, p, i) ==
    IF i >= p.rows \/ r.st # "ok" THEN r
    ELSE AddBiasRows(AddBiasChunks(r, p, i, 0), p, i + 1)

\* the body the four add_bias kernels share
AddBiasKernel(matrix, bias, rows, cols, width, align, ub) ==
    AddBiasRows([c |-> matrix.data, st |-> "ok"],
                [bias |-> bias.data, matrix_ptr |-> matrix.ptr, bias_ptr |-> bias.ptr,
                 rows |-> rows, cols |-> cols, width |-> width, align |-> align,
                 ub |-> ub], 0)

\* CpuSimdOps::add_bias_scalar
add_bias_scalar(matrix, bias, rows, cols) ==
    AddBiasKernel(matrix, bias, rows, cols, 0, 1, "proceed")

\* CpuSimdOps::add_bias_avx512: _mm512_load_ps / _mm512_store_ps
add_bias_avx512(matrix, bias, rows, cols, ub) ==
    AddBiasKernel(matrix, bias, rows, cols, 16, 64, ub)

\* CpuSimdOps::add_bias_avx2
add_bias_avx2(matrix, bias, rows, cols, ub) ==
    AddBiasKernel(matrix, bias, rows, cols, 8, 1, ub)

\* CpuSimdOps::add_bias_neon
add_bias_neon(matrix, bias, rows, cols, ub) ==
    AddBiasKernel(matrix, bias, rows, cols, 4, 1, ub)

\* CpuSimdOps::add_bias
add_bias(matrix, bias, rows, cols, ub) ==
    IF rows = 0 \/ cols = 0 THEN [c |-> matrix.data, st |-> "ok"]
    ELSE IF check_bounds(Len(matrix.data), rows * cols) = "Err"
    THEN add_bias_scalar(matrix, bias, rows, cols)
    ELSE IF check_bounds(Len(bias.data), cols) = "Err"
    THEN add_bias_scalar(matrix, bias, rows, cols)
    ELSE IF Arm = "scalar" THEN add_bias_scalar(matrix, bias, rows, cols)
    ELSE IF \/ check_alignment(matrix.ptr, ArmAlignment) = "Err"
            \/ check_alignment(bias.ptr, ArmAlignment) = "Err"
    THEN add_bias_scalar(matrix, bias, rows, cols)
    ELSE IF Arm = "avx512" THEN add_bias_avx512(matrix, bias, rows, cols, ub)
    ELSE IF Arm = "avx2" THEN add_bias_avx2(matrix, bias, rows, cols, ub)
    ELSE add_bias_neon(matrix, bias, rows, cols, ub)

\* ------------------------------------------------------------------------
\* apply_activation and activation_derivatives, for ActivationFunction::Relu
\* ------------------------------------------------------------------------
\* f32::max(0.0), _mm512_max_ps / _mm256_max_ps / vmaxq_f32 with zero
Relu(x) == IF x > 0 THEN x ELSE 0

\* if x > 0.0 { 1.0 } else { 0.0 }; the compare-and-mask of AVX2 and NEON
ReluDerivative(x) == IF x > 0 THEN 1 ELSE 0

RECURSIVE ApplyReluLoop(_, _, _)
\* while i + SIMD_WIDTH <= len { load, max, store }, then the remaining
\* elements one by one; p.width = 0 is the scalar kernel
ApplyReluLoop(r, p, i) ==
    IF i >= Len(r.c) \/ r.st # "ok" THEN r
    ELSE IF p.width = 0 \/ i + p.width > Len(r.c)
    THEN ApplyReluLoop([r EXCEPT !.c[i + 1] = Relu(@)], [p EXCEPT !.width = 0], i + 1)
    ELSE LET s == VecAccess(p.data_ptr, Len(r.c), i, p.width, p.align, p.ub)
         IN IF s # "ok" THEN [r EXCEPT !.st = s]
            ELSE ApplyReluLoop(
                     [r EXCEPT !.c = [x \in 1..Len(r.c) |->
                         IF x > i /\ x <= i + p.width THEN Relu(r.c[x]) ELSE r.c[x]]],
                     p, i + p.width)

\* the Relu arm the four apply_activation kernels share
ApplyReluKernel(data, width, align, ub) ==
    ApplyReluLoop([c |-> data.data, st |-> "ok"],
                  [data_ptr |-> data.ptr, width |-> width, align |-> align, ub |-> ub], 0)

\* CpuSimdOps::apply_activation_scalar
apply_activation_scalar(data) == ApplyReluKernel(data, 0, 1, "proceed")

\* CpuSimdOps::apply_activation_avx512
apply_activation_avx512(data, ub) == ApplyReluKernel(data, 16, 64, ub)

\* CpuSimdOps::apply_activation_avx2
apply_activation_avx2(data, ub) == ApplyReluKernel(data, 8, 1, ub)

\* CpuSimdOps::apply_activation_neon
apply_activation_neon(data, ub) == ApplyReluKernel(data, 4, 1, ub)

\* CpuSimdOps::apply_activation(data, ActivationFunction::Relu)
apply_activation(data, ub) ==
    IF Len(data.data) = 0 THEN [c |-> data.data, st |-> "ok"]
    ELSE IF Arm = "scalar" THEN apply_activation_scalar(data)
    ELSE IF check_alignment(data.ptr, ArmAlignment) = "Err" THEN apply_activation_scalar(data)
    ELSE IF Arm = "avx512" THEN apply_activation_avx512(data, ub)
    ELSE IF Arm = "avx2" THEN apply_activation_avx2(data, ub)
    ELSE apply_activation_neon(data, ub)

\* The helper _mm512_mask_blend_ps defined in simd/mod.rs. The definition
\* shadows the intrinsic that `use std::arch::x86_64::*` imports, so the call
\* in its last line is a call of the helper itself, on every path: the call
\* never returns (the stack runs out, or the recursion spins in place).
mm512_mask_blend_ps == "diverged"

RECURSIVE DerivReluLoop(_, _, _)
\* while i + SIMD_WIDTH <= len { load data, compare, blend, store }, then the
\* remaining elements one by one; p.width = 0 is the scalar kernel
DerivReluLoop(r, p, i) ==
    IF i >= Len(p.data) \/ r.st # "ok" THEN r
    ELSE IF p.width = 0 \/ i + p.width > Len(p.data)
    THEN IF i >= Len(r.c) THEN [r EXCEPT !.st = "panicked"]
         ELSE DerivReluLoop([r EXCEPT !.c[i + 1] = ReluDerivative(p.data[i + 1])],
                            [p EXCEPT !.width = 0], i + 1)
    ELSE LET sd == VecAccess(p.data_ptr, Len(p.data), i, p.width, p.align, p.ub)
             ss == VecAccess(p.deriv_ptr, Len(r.c), i, p.width, p.align, p.ub)
         IN IF sd # "ok" THEN [r EXCEPT !.st = sd]
            ELSE IF p.blend = "mask_blend" THEN [r EXCEPT !.st = mm512_mask_blend_ps]
            ELSE IF ss # "ok" THEN [r EXCEPT !.st = ss]
            ELSE DerivReluLoop(
                     [r EXCEPT !.c = [x \in 1..Len(r.c) |->
                         IF x > i /\ x <= i + p.width
                         THEN ReluDerivative(p.data[x]) ELSE r.c[x]]],
                     p, i + p.width)

\* the Relu arm the four activation_derivatives kernels share
DerivReluKernel(data, derivatives, width, align, blend, ub) ==
    DerivReluLoop([c |-> derivatives.data, st |-> "ok"],
                  [data |-> data.data, data_ptr |-> data.ptr,
                   deriv_ptr |-> derivatives.ptr, width |-> width, align |-> align,
                   blend |-> blend, ub |-> ub], 0)

\* CpuSimdOps::activation_derivatives_scalar
activation_derivatives_scalar(data, derivatives) ==
    DerivReluKernel(data, derivatives, 0, 1, "and", "proceed")

\* CpuSimdOps::activation_derivatives_avx512: _mm512_cmp_ps_mask, then the
\* module's _mm512_mask_blend_ps
activation_derivatives_avx512(data, derivatives, ub) ==
    DerivReluKernel(data, derivatives, 16, 64, "mask_blend", ub)

\* CpuSimdOps::activation_derivatives_avx2: _mm256_cmp_ps, _mm256_and_ps
activation_derivatives_avx2(data, derivatives, ub) ==
    DerivReluKernel(data, derivatives, 8, 1, "and", ub)

\* CpuSimdOps::activation_derivatives_neon: vcgtq_f32, vandq_u32
activation_derivatives_neon(data, derivatives, ub) ==
    DerivReluKernel(data, derivatives, 4, 1, "and", ub)

\* CpuSimdOps::activation_derivatives(data, derivatives, ActivationFunction::Relu)
activation_derivatives(data, derivatives, ub) ==
    IF Len(data.data) = 0 \/ Len(derivatives.data) = 0
    THEN [c |-> derivatives.data, st |-> "ok"]
    ELSE IF Len(data.data) # Len(derivatives.data)
    THEN [c |-> derivatives.data, st |-> "ok"]
    ELSE IF Arm = "scalar" THEN activation_derivatives_scalar(data, derivatives)
    ELSE IF \/ check_alignment(data.ptr, ArmAlignment) = "Err"
            \/ check_alignment(derivatives.ptr, ArmAlignment) = "Err"
    THEN activation_derivatives_scalar(data, derivatives)
    ELSE IF Arm = "avx512" THEN activation_derivatives_avx512(data, derivatives, ub)
    ELSE IF Arm = "avx2" THEN activation_derivatives_avx2(data, derivatives, ub)
    ELSE activation_derivatives_neon(data, derivatives, ub)

\* ------------------------------------------------------------------------
\* Calls on a dispatcher
\* ------------------------------------------------------------------------
Archs == {"x86_64", "aarch64"}

\* CpuFeatures::detect() on a CPU that has every extension of its architecture
DetectedFeatures(arch) ==
    IF arch = "x86_64"
    THEN [has_avx2 |-> TRUE, has_avx512f |-> TRUE, has_avx512vnni |-> TRUE,
          has_fma |-> TRUE, has_sse42 |-> TRUE, has_neon |-> FALSE]
    ELSE [NoFeatures EXCEPT !.has_neon = TRUE]

\* block sizes: element-wise blocks, one vector of AVX-512 per block, the default
BlockSizes == {1, 16, DefaultBlockSize}

\* the column counts (and data lengths) of the calls: none, below, at and
\* above the vector widths 4, 8 and 16
NSizes == {0, 1, 7, 8, 16, 17}
\* the row counts (m, rows) of the calls
RowSizes == {0, 1, 2}
\* the inner dimension k of the matmul calls
InnerSizes == {0, 1, 7}
DataLens == NSizes \cup {4, 5}

\* where the three slices of a call start, as addresses modulo 64
Layouts == {<<0, 0, 0>>, <<4, 0, 0>>, <<0, 32, 0>>, <<0, 0, 16>>}

\* how the lengths of the three slices differ from what the dimensions need
Slacks == {<<0, 0, 0>>, <<-1, 0, 0>>, <<0, -1, 0>>, <<0, 0, -1>>, <<1, 1, 1>>}

\* the buffers of a call: all as the dimensions need and aligned, or one
\* slice misplaced, or one slice short, or all of them longer
Shapes ==
    {<<ptrs, <<0, 0, 0>>>> : ptrs \in Layouts} \cup {<<<<0, 0, 0>>, slack>> : slack \in Slacks}

\* the contents of the buffers handed to a call
EntriesA(len) == [x \in 1..len |-> ((x - 1) % 3) - 1]
EntriesB(len) == [x \in 1..len |-> ((2 * x) % 5) - 2]
Before(len) == Fill(len, 7)

Slice(ptr, data) == [ptr |-> ptr, data |-> data]

\* CpuSimdOps::new(config) with config.simd_level = Some(level), for the
\* levels validate_configuration accepts on the CPU
SimdNew ==
    /\ target_arch \in Archs
    /\ cpu_features = DetectedFeatures(target_arch)
    /\ simd_level \in {<<l>> : l \in {x \in Levels : validate_configuration(x, cpu_features) = "Ok"}}
    /\ current_level = LevelOf(simd_level, cpu_features)
    /\ block_size \in BlockSizes
    /\ enable_bounds_check \in BOOLEAN
    /\ enable_alignment_check \in BOOLEAN
    /\ validate_result = "none"

\* what undefined behaviour can do in a call: the scalar kernels are safe code
UbOutcomes == IF Arm = "scalar" THEN {"proceed"} ELSE {"fault", "proceed"}

\* what the caller sees of a kernel run
Outcome(r) == IF r.st = "ok" THEN "returned" ELSE r.st

\* ops.matmul(&a, &b, &mut c, m, n, k)
Matmul(m, n, k, ptrs, slack, ub) ==
    /\ call.op = "none"
    /\ LET a == Slice(ptrs[1], EntriesA(Max(0, m * k + slack[1])))
           b == Slice(ptrs[2], EntriesB(Max(0, k * n + slack[2])))
           c == Slice(ptrs[3], Before(Max(0, m * n + slack[3])))
           r == matmul(a, b, c, m, n, k, ub)
       IN /\ call' = [op |-> "matmul", dims |-> <<m, n, k>>, ptrs |-> ptrs,
                      inputs |-> <<a.data, b.data>>, before |-> c.data]
          /\ out' = r.c
          /\ outcome' = Outcome(r)
    /\ UNCHANGED <<configVars, cacheVars, mgrVars,
                 gcVars, arenaVars, ledgerVars, poolVars, extVars>>

\* ops.matvec(&a, &x, &mut y, m, n)
Matvec(m, n, ptrs, slack, ub) ==
    /\ call.op = "none"
    /\ LET a == Slice(ptrs[1], EntriesA(Max(0, m * n + slack[1])))
           x == Slice(ptrs[2], EntriesB(Max(0, n + slack[2])))
           y == Slice(ptrs[3], Before(Max(0, m + slack[3])))
           r == matvec(a, x, y, m, n, ub)
       IN /\ call' = [op |-> "matvec", dims |-> <<m, n>>, ptrs |-> ptrs,
                      inputs |-> <<a.data, x.data>>, before |-> y.data]
          /\ out' = r.c
          /\ outcome' = Outcome(r)
    /\ UNCHANGED <<configVars, cacheVars, mgrVars,
                 gcVars, arenaVars, ledgerVars, poolVars, extVars>>

\* ops.add_bias(&mut matrix, &bias, rows, cols)
AddBias(rows, cols, ptrs, slack, ub) ==
    /\ call.op = "none"
    /\ LET matrix == Slice(ptrs[3], Before(Max(0, rows * cols + slack[3])))
           bias == Slice(ptrs[2], EntriesB(Max(0, cols + slack[2])))
           r == add_bias(matrix, bias, rows, cols, ub)
       IN /\ call' = [op |-> "add_bias", dims |-> <<rows, cols>>,
                      ptrs |-> <<ptrs[3], ptrs[2]>>,
                      inputs |-> <<bias.data>>, before |-> matrix.data]
          /\ out' = r.c
          /\ outcome' = Outcome(r)
    /\ UNCHANGED <<configVars, cacheVars, mgrVars,
                 gcVars, arenaVars, ledgerVars, poolVars, extVars>>

\* ops.apply_activation(&mut data, ActivationFunction::Relu)
ApplyActivation(len, ptrs, ub) ==
    /\ call.op = "none"
    /\ LET data == Slice(ptrs[2], EntriesB(len))
           r == apply_activation(data, ub)
       IN /\ call' = [op |-> "apply_activation", dims |-> <<len>>, ptrs |-> <<ptrs[2]>>,
                      inputs |-> <<>>, before |-> data.data]
          /\ out' = r.c
          /\ outcome' = Outcome(r)
    /\ UNCHANGED <<configVars, cacheVars, mgrVars,
                 gcVars, arenaVars, ledgerVars, poolVars, extVars>>

\* ops.activation_derivatives(&data, &mut derivatives, ActivationFunction::Relu)
ActivationDerivatives(len, dlen, ptrs, ub) ==
    /\ call.op = "none"
    /\ LET data == Slice(ptrs[2], EntriesB(len))
           derivatives == Slice(ptrs[3], Before(dlen))
           r == activation_derivatives(data, derivatives, ub)
       IN /\ call' = [op |-> "activation_derivatives", dims |-> <<len, dlen>>,
                      ptrs |-> <<ptrs[2], ptrs[3]>>,
                      inputs |-> <<data.data>>, before |-> derivatives.data]
          /\ out' = r.c
          /\ outcome' = Outcome(r)
    /\ UNCHANGED <<configVars, cacheVars, mgrVars,
                 gcVars, arenaVars, ledgerVars, poolVars, extVars>>

\* the call returned: the caller holds the dispatcher again
Return ==
    /\ outcome = "returned"
    /\ call' = NoCall
    /\ out' = <<>>
    /\ outcome' = "none"
    /\ UNCHANGED <<configVars, cacheVars, mgrVars,
                 gcVars, arenaVars, ledgerVars, poolVars, extVars>>

NextSimd ==
    \/ \E m \in RowSizes, n \in NSizes, k \in InnerSizes, shape \in Shapes, ub \in UbOutcomes :
          Matmul(m, n, k, shape[1], shape[2], ub)
    \/ \E m \in RowSizes, n \in NSizes, shape \in Shapes, ub \in UbOutcomes :
          Matvec(m, n, shape[1], shape[2], ub)
    \/ \E rows \in RowSizes, cols \in NSizes, shape \in Shapes, ub \in UbOutcomes :
          AddBias(rows, cols, shape[1], shape[2], ub)
    \/ \E len \in DataLens, ptrs \in Layouts, ub \in UbOutcomes :
          ApplyActivation(len, ptrs, ub)
    \/ \E len \in DataLens, dlen \in DataLens, ptrs \in Layouts, ub \in UbOutcomes :
          ActivationDerivatives(len, dlen, ptrs, ub)
    \/ Return

InitSimd == SimdNew /\ NoCallYet /\ CacheUnused /\ ManagerUnused /\ ArenaUnused /\ OthersUnused

SpecSimd == InitSimd /\ [][NextSimd]_vars

\* the dimensions of the call are all non-zero
NonZeroDims == \A d \in 1..Len(call.dims) : call.dims[d] # 0

\* the slices of the call start where the dispatcher's tier requires
AlignedForTier ==
    \A q \in 1..Len(call.ptrs) : call.ptrs[q] % required_alignment(current_level) = 0

\* C7: with bounds checking enabled, matmul with non-zero m, n, k returns
\* normally, whatever the lengths of A, B and C are (shorter than m*k, k*n,
\* m*n included): no panic and no access outside a slice, on every tier.
C7_MatmulDegrades ==
    (call.op = "matmul" /\ enable_bounds_check /\ NonZeroDims) => outcome = "returned"

\* C8: a call to matmul, matvec or add_bias with a zero dimension returns and
\* leaves every element of the output buffer as it was before the call.
C8_ZeroDimsNoOp ==
    (call.op \in {"matmul", "matvec", "add_bias"} /\ ~NonZeroDims) =>
        /\ outcome = "returned"
        /\ out = call.before

\* sum over p < k of A[i*k+p] * B[p*n+j], the scalar reference
MatmulReference(i, j) ==
    LET k == call.dims[3]
        n == call.dims[2]
    IN SumOver([q \in 0..(k - 1) |->
                   call.inputs[1][i * k + q + 1] * call.inputs[2][q * n + j + 1]],
               0..(k - 1))

\* the buffers of the matmul call are as long as its dimensions need
MatmulFits ==
    /\ Len(call.inputs[1]) >= call.dims[1] * call.dims[3]
    /\ Len(call.inputs[2]) >= call.dims[3] * call.dims[2]
    /\ Len(call.before) >= call.dims[1] * call.dims[2]

\* the sizes the tiers are compared on
TestedSizes == {1, 7, 8, 16, 17, 64}

\* C9: for m, n, k in {1, 7, 8, 16, 17, 64}, on every tier and for every
\* block size, matmul on operands aligned as the tier requires completes and
\* writes C[i*n+j] = sum over p < k of A[i*k+p] * B[p*n+j] for all i < m,
\* j < n, whatever C held before.
C9_MatmulTierIndependent ==
    (/\ call.op = "matmul"
     /\ \A d \in 1..3 : call.dims[d] \in TestedSizes
     /\ MatmulFits
     /\ AlignedForTier) =>
        /\ outcome = "returned"
        /\ \A i \in 0..(call.dims[1] - 1), j \in 0..(call.dims[2] - 1) :
              out[i * call.dims[2] + j + 1] = MatmulReference(i, j)

\* C10: on every tier and for every data length, apply_activation(Relu)
\* returns with each x replaced by max(0, x), and activation_derivatives(Relu)
\* (on slices of equal length) returns with 1 where data[i] > 0 and 0
\* elsewhere.
C10_ReluTierIndependent ==
    /\ (call.op = "apply_activation" /\ AlignedForTier) =>
          /\ outcome = "returned"
          /\ out = [x \in 1..Len(call.before) |-> Relu(call.before[x])]
    /\ (call.op = "activation_derivatives" /\ AlignedForTier
            /\ call.dims[1] = call.dims[2]) =>
          /\ outcome = "returned"
          /\ out = [x \in 1..call.dims[1] |-> ReluDerivative(call.inputs[1][x])]

\* ---------------------------------------------------------------------------
\* GarbageCollector: reference counts and the pending list
\* ---------------------------------------------------------------------------

\* the keys the callers use
GcKeys == {"a", "b"}

\* counts are explored up to here (u32 in the source)
MaxRefs == 2

\* the pending list is explored up to this length
MaxPending == 3

\* the thresholds a collector is built with
Thresholds == 0..2

\* the elements of a Vec
Range(s) == {s[i] : i \in DOMAIN s}

\* the orders in which a HashMap can iterate over the keys in S
Orders(S) == {s \in [1..Cardinality(S) -> S] : Range(s) = S}

\* HashMap::remove for every key in S
RemoveKeys(m, S) == [k \in (DOMAIN m) \ S |-> m[k]]

\* the keys whose count is zero
ZeroKeys(m) == {k \in DOMAIN m : m[k] = 0}

\* GarbageCollector::new
GarbageCollectorNew(threshold) ==
    [ref_counts |-> [k \in {} |-> 0],
     marked_for_gc |-> <<>>,
     collection_threshold |-> threshold]

\* entry(key).or_insert(0), then += 1
inc_ref(gc, key) ==
    LET count == IF key \in DOMAIN gc.ref_counts THEN gc.ref_counts[key] ELSE 0
    IN  [gc EXCEPT !.ref_counts =
            [k \in (DOMAIN gc.ref_counts) \cup {key} |->
                IF k = key THEN count + 1 ELSE gc.ref_counts[k]]]

\* dec_ref with the push outside the count > 0 test
dec_ref_push_at_zero(gc, key) ==
    IF key \in DOMAIN gc.ref_counts
    THEN LET count == IF gc.ref_counts[key] > 0 THEN gc.ref_counts[key] - 1 ELSE 0
         IN  [gc EXCEPT !.ref_counts[key] = count,
                        !.marked_for_gc =
                            IF count = 0 THEN Append(gc.marked_for_gc, key)
                            ELSE gc.marked_for_gc]
    ELSE gc

\* get_mut(key); if *count > 0 { *count -= 1; if *count == 0 { push } }
dec_ref(gc, key) ==
    IF key \in DOMAIN gc.ref_counts /\ gc.ref_counts[key] > 0
    THEN [gc EXCEPT !.ref_counts[key] = gc.ref_counts[key] - 1,
                    !.marked_for_gc =
                        IF gc.ref_counts[key] - 1 = 0 THEN Append(gc.marked_for_gc, key)
                        ELSE gc.marked_for_gc]
    ELSE gc

\* a threshold that has to be exceeded
ThresholdExceeded(len, threshold) == len > threshold

\* self.marked_for_gc.len() >= self.collection_threshold
ThresholdReached(len, threshold) == len >= threshold

\* collect_garbage: the collector afterwards and the Vec returned
collect_garbage(gc) ==
    IF ThresholdReached(Len(gc.marked_for_gc), gc.collection_threshold)
    THEN [gc |-> [gc EXCEPT !.ref_counts = RemoveKeys(gc.ref_counts, Range(gc.marked_for_gc)),
                            !.marked_for_gc = <<>>],
          collected |-> gc.marked_for_gc]
    ELSE [gc |-> gc, collected |-> <<>>]

\* force_collect: the collector afterwards, given the order the keys were iterated in
force_collect(gc, collected) ==
    [gc EXCEPT !.ref_counts = RemoveKeys(gc.ref_counts, Range(collected)),
               !.marked_for_gc = <<>>]

\* the collector held in the variables
Gc ==
    [ref_counts |-> ref_counts,
     marked_for_gc |-> marked_for_gc,
     collection_threshold |-> collection_threshold]

SetGc(gc) ==
    /\ ref_counts' = gc.ref_counts
    /\ marked_for_gc' = gc.marked_for_gc
    /\ collection_threshold' = gc.collection_threshold

NotGc == <<cacheVars, mgrVars, configVars, callVars, arenaVars, ledgerVars, poolVars, extVars>>

IncRef ==
    \E key \in GcKeys :
        /\ (IF key \in DOMAIN ref_counts THEN ref_counts[key] ELSE 0) < MaxRefs
        /\ SetGc(inc_ref(Gc, key))
        /\ gc_op' = [op |-> "inc_ref", key |-> key, result |-> <<>>]
        /\ UNCHANGED NotGc

DecRef ==
    \E key \in GcKeys :
        /\ Len(marked_for_gc) < MaxPending
        /\ SetGc(dec_ref(Gc, key))
        /\ gc_op' = [op |-> "dec_ref", key |-> key, result |-> <<>>]
        /\ UNCHANGED NotGc

CollectGarbage ==
    LET r == collect_garbage(Gc)
    IN  /\ SetGc(r.gc)
        /\ gc_op' = [op |-> "collect_garbage", key |-> "", result |-> r.collected]
        /\ UNCHANGED NotGc

ForceCollect ==
    \E collected \in Orders(ZeroKeys(ref_counts)) :
        /\ SetGc(force_collect(Gc, collected))
        /\ gc_op' = [op |-> "force_collect", key |-> "", result |-> collected]
        /\ UNCHANGED NotGc

NextGc == IncRef \/ DecRef \/ CollectGarbage \/ ForceCollect

InitGc ==
    /\ \E threshold \in Thresholds :
        LET gc == GarbageCollectorNew(threshold)
        IN  /\ ref_counts = gc.ref_counts
            /\ marked_for_gc = gc.marked_for_gc
            /\ collection_threshold = gc.collection_threshold
    /\ gc_op = NoGcOp
    /\ CacheUnused /\ ManagerUnused /\ DispatcherUnused /\ NoCallYet
    /\ ArenaUnused /\ LedgerUnused /\ PoolUnused /\ ExtUnused

SpecGc == InitGc /\ [][NextGc]_vars

\* C11: a key whose count is back at zero is returned by collect_garbage and
\* removed from ref_counts exactly when the pending list is at least
\* collection_threshold long; below the threshold collect_garbage returns
\* nothing and leaves ref_counts and the pending list as they were.
\* force_collect returns exactly the keys whose count is zero, whatever the
\* threshold, removes them, keeps every key with a positive count and its
\* count, and empties the pending list.
C11_Collection ==
    [][ /\ gc_op'.op = "collect_garbage" =>
            IF Len(marked_for_gc) >= collection_threshold
            THEN \A k \in ZeroKeys(ref_counts) :
                    k \in Range(gc_op'.result) /\ k \notin DOMAIN ref_counts'
            ELSE /\ gc_op'.result = <<>>
                 /\ ref_counts' = ref_counts
                 /\ marked_for_gc' = marked_for_gc
        /\ gc_op'.op = "force_collect" =>
            /\ Range(gc_op'.result) = ZeroKeys(ref_counts)
            /\ Len(gc_op'.result) = Cardinality(ZeroKeys(ref_counts))
            /\ DOMAIN ref_counts' = (DOMAIN ref_counts) \ ZeroKeys(ref_counts)
            /\ \A k \in DOMAIN ref_counts' : ref_counts'[k] = ref_counts[k]
            /\ marked_for_gc' = <<>>
      ]_vars

\* a collection at a positive threshold that returned a key and kept another
C11_Witness ==
    /\ gc_op.op = "collect_garbage"
    /\ gc_op.result # <<>>
    /\ collection_threshold > 0
    /\ Len(gc_op.result) >= collection_threshold
    /\ \E k \in DOMAIN ref_counts : ref_counts[k] > 0

\* C12: counts never go below zero; dec_ref of an unknown key or of a key at
\* zero changes nothing; a key is appended to the pending list once by each
\* dec_ref that takes its count from 1 to 0, and by no other call.
C12_ZeroTransition ==
    [][ /\ \A k \in DOMAIN ref_counts' : ref_counts'[k] >= 0
        /\ gc_op'.op = "dec_ref" =>
            LET k == gc_op'.key
            IN  IF k \notin DOMAIN ref_counts \/ ref_counts[k] = 0
                THEN ref_counts' = ref_counts /\ marked_for_gc' = marked_for_gc
                ELSE /\ ref_counts' = [ref_counts EXCEPT ![k] = ref_counts[k] - 1]
                     /\ marked_for_gc' =
                            IF ref_counts[k] = 1 THEN Append(marked_for_gc, k)
                            ELSE marked_for_gc
        /\ gc_op'.op = "inc_ref" => marked_for_gc' = marked_for_gc
        /\ gc_op'.op \in {"collect_garbage", "force_collect"} =>
            marked_for_gc' \in {marked_for_gc, <<>>}
      ]_vars

\* a second dec_ref of a key whose count is already zero and which is pending once
C12_Witness ==
    /\ gc_op.op = "dec_ref"
    /\ gc_op.key \in DOMAIN ref_counts
    /\ ref_counts[gc_op.key] = 0
    /\ Len(marked_for_gc) = 1
    /\ \E k \in DOMAIN ref_counts : ref_counts[k] = MaxRefs

\* ---------------------------------------------------------------------------
\* MemoryLeakDetector used on its own
\* ---------------------------------------------------------------------------

\* the detector hands out at most this many ids
MaxTracked == 3

\* the sizes of test_memory_leak_detector
LedgerSizes == {100, 200}

NotLedger == <<cacheVars, mgrVars, configVars, callVars, gcVars, arenaVars, poolVars, extVars>>

\* let id = detector.track_allocation(size): the caller keeps the id
TrackAllocation ==
    \E size \in LedgerSizes :
        LET id == ledger.allocation_counter
        IN  /\ ledger.allocation_counter < MaxTracked
            /\ ledger' = track_allocation(ledger, size)
            /\ ledger_ids' = Append(ledger_ids, id)
            /\ ledger_live' = [i \in (DOMAIN ledger_live) \cup {id} |->
                                  IF i = id THEN size ELSE ledger_live[i]]
            /\ ledger_op' = [op |-> "track_allocation", id |-> id]
            /\ UNCHANGED NotLedger

\* detector.track_deallocation(id), with any id: one handed out and still
\* tracked, one already given back, or one never handed out
TrackDeallocation ==
    \E id \in 0..MaxTracked :
        /\ ledger' = track_deallocation(ledger, id)
        /\ ledger_live' = [i \in (DOMAIN ledger_live) \ {id} |-> ledger_live[i]]
        /\ ledger_op' = [op |-> "track_deallocation", id |-> id]
        /\ UNCHANGED <<ledger_ids, NotLedger>>

NextLedger == TrackAllocation \/ TrackDeallocation

InitLedger ==
    /\ ledger = DetectorNew
    /\ ledger_ids = <<>>
    /\ ledger_live = <<>>
    /\ ledger_op = NoLedgerOp
    /\ CacheUnused /\ ManagerUnused /\ DispatcherUnused /\ NoCallYet
    /\ ArenaUnused /\ GcUnused /\ PoolUnused /\ ExtUnused

SpecLedger == InitLedger /\ [][NextLedger]_vars

\* C13: the ids track_allocation returns are strictly increasing (so pairwise
\* distinct); leaked_memory_bytes() is the sum of the sizes of the ids tracked
\* and not yet deallocated; detect_leaks() lists exactly those ids;
\* track_deallocation of an id that is unknown or already removed leaves the
\* detector as it was.
C13_LeakLedger ==
    [][ /\ \A i, j \in DOMAIN ledger_ids' : i < j => ledger_ids'[i] < ledger_ids'[j]
        /\ leaked_memory_bytes(ledger') = SumOver(ledger_live', DOMAIN ledger_live')
        /\ detect_leaks(ledger') = DOMAIN ledger_live'
        /\ (ledger_op'.op = "track_deallocation" /\ ledger_op'.id \notin DOMAIN ledger_live) =>
               ledger' = ledger
      ]_vars

\* test_memory_leak_detector: 100 and 200 tracked, the first id given back
C13_Witness ==
    /\ ledger_ids = <<0, 1>>
    /\ ledger_op = [op |-> "track_deallocation", id |-> 0]
    /\ leaked_memory_bytes(ledger) = 200
    /\ detect_leaks(ledger) = {1}

\* ---------------------------------------------------------------------------
\* MemoryManager: peak memory, fragmentation ratio, missing pool or arena
\* ---------------------------------------------------------------------------

\* C14: in every state reached by allocate, deallocate, arena_allocate,
\* reset_arena, clear_all and defragment_pools, get_stats().peak_memory is at
\* least get_stats().current_memory.
C14_PeakAtLeastCurrent == stats.peak_memory >= stats.current_memory

\* the free buffers in all pools
FreeBuffers == SumOver([nm \in DOMAIN pools |-> Len(pools[nm].available)], DOMAIN pools)

\* the buffers handed out and not yet given back
OutstandingBuffers == SumOver(outstanding, DOMAIN outstanding)

\* fragmentation_ratio is free / (free + outstanding), and at most 1
RatioOfFreeBuffers ==
    /\ stats.fragmentation_ratio[1] * (IF FreeBuffers + OutstandingBuffers = 0 THEN 1
                                       ELSE FreeBuffers + OutstandingBuffers)
           = FreeBuffers * stats.fragmentation_ratio[2]
    /\ stats.fragmentation_ratio[1] <= stats.fragmentation_ratio[2]

\* a call of allocate, deallocate or defragment_pools that went through
PoolStep ==
    \/ \E name \in PoolNames, size \in 0..MaxBufLen : Allocate(name, size) /\ mgr_result' = "Ok"
    \/ \E name \in PoolNames, len \in 0..MaxBufLen : Deallocate(name, len) /\ mgr_result' = "Ok"
    \/ DefragmentPools

\* C15: after every allocate, deallocate and defragment_pools,
\* get_stats().fragmentation_ratio is the number of free buffers in all pools
\* divided by the number of free plus outstanding buffers, so it lies between
\* 0 and 1: the numerator update_stats divides never exceeds its denominator.
C15_FragmentationRatio == [][PoolStep => RatioOfFreeBuffers']_vars

\* ---------------------------------------------------------------------------
\* ArenaAllocator used on its own
\* ---------------------------------------------------------------------------

\* the callers make at most this many successful requests between two resets
MaxRequests == 4

\* the arena grows to at most this many chunks (the system allocator refuses more)
MaxChunks == 3

\* ArenaAllocator::new(chunk_size, alignment) as the callers build it
ArenaChunkSizes == {8}

\* the greatest of them
ArenaChunkSizesMax == CHOOSE c \in ArenaChunkSizes : \A d \in ArenaChunkSizes : d <= c

\* the alignment of test_arena_allocator
TestAlignment == 8

\* the (size, alignment) requests the callers make
RequestSizes == {3, 6, 12}

RequestAlignments == {1, 4}

NotArena == <<cacheVars, mgrVars, configVars, callVars, gcVars, ledgerVars, poolVars,
                   extVars>>

\* arena.allocate(size, alignment); with no chunk left the call indexes
\* chunks[current_chunk] and panics
ArenaAlloc ==
    \E size \in RequestSizes, alignment \in RequestAlignments, granted \in BOOLEAN :
        /\ Len(arena_log) < MaxRequests
        /\ granted => Len(arena[1].chunks) < MaxChunks
        /\ IF arena[1].chunks = <<>>
           THEN /\ arena_op' = [op |-> "allocate", size |-> size, alignment |-> alignment,
                                result |-> "panicked", granted |-> granted]
                /\ UNCHANGED <<arena, arena_log>>
           ELSE LET r == ArenaAllocatorAllocate(arena[1], size, alignment, granted)
                IN  /\ arena' = <<r.arena>>
                    /\ arena_log' = IF r.ok THEN Append(arena_log, <<size, alignment>>)
                                    ELSE arena_log
                    /\ arena_op' = [op |-> "allocate", size |-> size, alignment |-> alignment,
                                    result |-> IF r.ok THEN "Some" ELSE "None",
                                    granted |-> granted]
        /\ UNCHANGED <<enable_arena, arena_fresh, NotArena>>

\* arena.reset()
ArenaReset ==
    /\ arena' = <<ArenaAllocatorReset(arena[1])>>
    /\ arena_log' = <<>>
    /\ arena_fresh' = FALSE
    /\ arena_op' = [op |-> "reset", size |-> 0, alignment |-> 0, result |-> "done"]
    /\ UNCHANGED <<enable_arena, NotArena>>

\* arena.defragment()
ArenaDefragment ==
    \E granted \in BOOLEAN :
        /\ arena' = <<ArenaAllocatorDefragment(arena[1], granted)>>
        /\ arena_fresh' = FALSE
        /\ arena_op' = [op |-> "defragment", size |-> 0, alignment |-> 0, result |-> "done"]
        /\ UNCHANGED <<enable_arena, arena_log, NotArena>>

NextArena == ArenaAlloc \/ ArenaReset \/ ArenaDefragment

InitArena ==
    /\ \E chunk_size \in ArenaChunkSizes :
           arena = ArenaAllocatorNew(chunk_size, TestAlignment, TRUE)
    /\ enable_arena = FALSE
    /\ arena_log = <<>>
    /\ arena_fresh = TRUE
    /\ arena_op = NoArenaOp
    /\ CacheUnused /\ ManagerUnused /\ DispatcherUnused /\ NoCallYet
    /\ GcUnused /\ LedgerUnused /\ PoolUnused /\ ExtUnused

SpecArena == InitArena /\ [][NextArena]_vars

\* the requests of log made again, in order, while the system allocator
\* grants no chunk: [arena, ok]
RECURSIVE Replay(_, _)
Replay(a, log) ==
    IF log = <<>> THEN [arena |-> a, ok |-> TRUE]
    ELSE LET r == ArenaAllocatorAllocate(a, Head(log)[1], Head(log)[2], FALSE)
         IN  IF r.ok THEN Replay(r.arena, Tail(log)) ELSE [arena |-> a, ok |-> FALSE]

\* C16: whatever requests a fresh arena has served, after reset() the same
\* requests in the same order succeed again and chunk_count() is what it was:
\* no new chunk is needed.
C16_ResetReplay ==
    arena_fresh =>
        LET r == Replay(ArenaAllocatorReset(arena[1]), arena_log)
        IN  /\ r.ok
            /\ chunk_count(r.arena) = chunk_count(arena[1])

\* a fresh arena that grew to MaxChunks chunks and went back to an earlier chunk
C16_Witness ==
    /\ arena_fresh
    /\ Len(arena_log) = MaxRequests
    /\ chunk_count(arena[1]) = MaxChunks
    /\ arena[1].current_chunk = 0

\* the sizes of the requests in log
RECURSIVE SumSizes(_)
SumSizes(log) == IF log = <<>> THEN 0 ELSE Head(log)[1] + SumSizes(Tail(log))

\* C17: total_allocated() is the sum of the requested sizes of the successful
\* allocate calls since creation or the last reset; it is 0 after reset; a
\* failed allocate leaves it unchanged.
C17_TotalAllocated ==
    [][ /\ arena_total_allocated(arena'[1]) = SumSizes(arena_log')
        /\ arena_op'.op = "reset" => arena_total_allocated(arena'[1]) = 0
        /\ (arena_op'.op = "allocate" /\ arena_op'.result = "None") =>
               arena_total_allocated(arena'[1]) = arena_total_allocated(arena[1])
      ]_vars

\* requests served from two chunks after a reset, then one that failed
C17_Witness ==
    /\ ~arena_fresh
    /\ arena_op.op = "allocate"
    /\ arena_op.result = "None"
    /\ Len(arena_log) >= 2
    /\ arena_total_allocated(arena[1]) > ArenaChunkSizesMax

\* C18: in every state reached by allocate, reset and defragment, whether or
\* not the system allocator grants the replacement chunk, chunk_count() >= 1
\* and current_chunk < chunk_count(); defragment removes the chunks with
\* offset 0 and keeps the others as they are.
C18_ArenaKeepsAChunk ==
    [][ /\ chunk_count(arena'[1]) >= 1
        /\ arena'[1].current_chunk < chunk_count(arena'[1])
        /\ (arena_op'.op = "defragment" /\ RetainUsed(arena[1].chunks) # <<>>) =>
               arena'[1].chunks = RetainUsed(arena[1].chunks)
      ]_vars

\* ---------------------------------------------------------------------------
\* MemoryPool used on its own
\* ---------------------------------------------------------------------------

\* the buffers in existence (held by the caller or in the free list)
MaxBuffers == 3

\* buffer_size of test_pool_reuse
TestBufferSize == 100

\* the lengths the caller asks for: none, one element, the 50 of test_pool_reuse
PoolSizes == {0, 1, 50}

\* buffer.clear(); buffer.resize(size, T::zero()): the length afterwards
Resized(len, size) == 0 + size

\* the length of the buffer MemoryPool::allocate(size) hands out
AllocatedLen(p, size) ==
    IF p.available # <<>> THEN Resized(p.available[Len(p.available)], size) ELSE size

NotPool == <<cacheVars, mgrVars, configVars, callVars, gcVars, arenaVars, ledgerVars, extVars>>

\* let buffer = mem_pool.allocate(size).unwrap(): the caller keeps the buffer
PoolAlloc ==
    \E size \in PoolSizes :
        LET len == AllocatedLen(mem_pool, size)
        IN  /\ SumOver(pool_held, DOMAIN pool_held) + Len(mem_pool.available) < MaxBuffers
               \/ mem_pool.available # <<>>
            /\ mem_pool' = PoolAllocate(mem_pool, size)
            /\ pool_held' = [l \in (DOMAIN pool_held) \cup {len} |->
                                IF l = len
                                THEN (IF l \in DOMAIN pool_held THEN pool_held[l] ELSE 0) + 1
                                ELSE pool_held[l]]
            /\ pool_idle' = IF pool_idle > 0 THEN pool_idle - 1 ELSE 0
            /\ pool_op' = [op |-> "allocate", size |-> size, len |-> len]
            /\ UNCHANGED NotPool

\* pool.deallocate(buffer) with a buffer the caller holds
PoolDealloc ==
    \E len \in DOMAIN pool_held :
        /\ pool_held[len] > 0
        /\ mem_pool' = PoolDeallocate(mem_pool, len)
        /\ pool_held' = [pool_held EXCEPT ![len] = @ - 1]
        /\ pool_idle' = pool_idle + 1
        /\ pool_op' = [op |-> "deallocate", size |-> 0, len |-> len]
        /\ UNCHANGED NotPool

NextPool == PoolAlloc \/ PoolDealloc

InitPool ==
    /\ mem_pool = PoolNew(TestBufferSize)
    /\ pool_held = <<>>
    /\ pool_idle = 0
    /\ pool_op = NoPoolOp
    /\ CacheUnused /\ ManagerUnused /\ DispatcherUnused /\ NoCallYet
    /\ ArenaUnused /\ GcUnused /\ LedgerUnused /\ ExtUnused

SpecPool == InitPool /\ [][NextPool]_vars

\* C19: while every deallocate returns a buffer that is outstanding,
\* allocated_count() is the number of buffers handed out and not yet returned,
\* available_count() is the number of returned buffers not handed out again,
\* and allocate takes one buffer from the free list whenever it is not empty
\* and hands out a buffer of exactly the requested length.
C19_PoolCounters ==
    [][ /\ mem_pool'.allocated_count = SumOver(pool_held', DOMAIN pool_held')
        /\ Len(mem_pool'.available) = pool_idle'
        /\ pool_op'.op = "allocate" =>
            /\ mem_pool.available # <<>> => Len(mem_pool'.available) = Len(mem_pool.available) - 1
            /\ pool_op'.len = pool_op'.size
      ]_vars

\* test_pool_reuse, with another buffer outstanding: a returned buffer of one
\* length was handed out again at another length
C19_Witness ==
    /\ pool_op = [op |-> "allocate", size |-> 50, len |-> 50]
    /\ mem_pool.available = <<>>
    /\ mem_pool.allocated_count = 2
    /\ pool_held = (1 :> 1) @@ (50 :> 1)
    /\ pool_idle = 0

\* a call of allocate or deallocate naming a pool that does not exist, or of
\* arena_allocate with the arena disabled or not initialized
MissingCall ==
    \/ \E name \in PoolNames \cup MissingPools, size \in 0..MaxBufLen :
           name \notin DOMAIN pools /\ Allocate(name, size)
    \/ \E name \in PoolNames \cup MissingPools, len \in 0..MaxBufLen :
           name \notin DOMAIN pools /\ Deallocate(name, len)
    \/ \E size \in 0..MaxBufLen :
           (~enable_arena \/ arena = <<>>) /\ ArenaAllocate(size)

\* C20: allocate and deallocate with a pool name that does not exist, and
\* arena_allocate with the arena disabled or not initialized, return Err and
\* leave pools, total_allocated, peak_memory, the counters and the stats
\* snapshot as they were.
C20_MissingIsErr ==
    [][MissingCall =>
            /\ mgr_result' = "Err"
            /\ UNCHANGED <<pools, total_allocated, peak_memory, stats, arena>>
      ]_vars

\* an Err from a manager without arena that has a pool, a buffer outstanding
\* and one given back
C20_Witness ==
    /\ mgr_result = "Err"
    /\ ~enable_arena
    /\ DOMAIN pools # {}
    /\ stats.allocation_count >= 2
    /\ stats.deallocation_count >= 1
    /\ total_allocated > 0

\* ---------------------------------------------------------------------------
\* GLOBAL_MEMORY_MANAGER: the free functions called from several threads
\* ---------------------------------------------------------------------------

\* each thread makes at most this many calls
MaxCalls == 2

\* the pools init_default_pools and init_advanced_memory_management create, in order
DefaultPools == <<"weights", "activations", "gradients", "temporary">>

\* the free functions of the module
GlobalFunctions ==
    {"init_default_pools", "init_advanced_memory_management", "get_memory_report",
     "get_memory_leak_report", "reset_memory_arena"}

\* a Mutex that lets every caller in
MutexIgnored(holder) == TRUE

\* Mutex::lock returns once no other thread holds the guard
MutexFree(holder) == holder = 0

NotGlobal == <<cacheVars, mgrVars, configVars, callVars, gcVars, arenaVars, ledgerVars, poolVars,
               lateVars>>

\* let manager = GLOBAL_MEMORY_MANAGER.lock().unwrap(), first statement of
\* every function
Lock(t) ==
    \E fn \in GlobalFunctions :
        /\ thread_pc[t].fn = "none"
        /\ thread_calls[t] < MaxCalls
        /\ MutexFree(mutex)
        /\ mutex' = t
        /\ thread_pc' = [thread_pc EXCEPT ![t] = [fn |-> fn, step |-> 1]]
        /\ thread_calls' = [thread_calls EXCEPT ![t] = @ + 1]
        /\ UNCHANGED <<global_manager, thread_seen, NotGlobal>>

\* *manager = MemoryManager::with_advanced_features(..): a manager without pools
Replace(t) ==
    /\ thread_pc[t] = [fn |-> "init_advanced_memory_management", step |-> 1]
    /\ global_manager' = [pools |-> {}, replaced |-> global_manager.replaced + 1]
    /\ thread_pc' = [thread_pc EXCEPT ![t].step = 2]
    /\ UNCHANGED <<mutex, thread_calls, thread_seen, NotGlobal>>

\* the statement at which a function starts to create the default pools
FirstCreate(fn) == IF fn = "init_advanced_memory_management" THEN 2 ELSE 1

\* manager.create_pool(name, size), one of the four in a row
CreateDefaultPool(t) ==
    LET fn == thread_pc[t].fn
        i  == thread_pc[t].step - FirstCreate(fn) + 1
    IN  /\ fn \in {"init_default_pools", "init_advanced_memory_management"}
        /\ i \in 1..Len(DefaultPools)
        /\ global_manager' = [global_manager EXCEPT !.pools = @ \cup {DefaultPools[i]}]
        /\ thread_pc' = [thread_pc EXCEPT ![t].step = @ + 1]
        /\ UNCHANGED <<mutex, thread_calls, thread_seen, NotGlobal>>

\* manager.get_stats(), manager.get_leak_report(), manager.reset_arena(): the
\* body reads the manager behind the guard
ReadManager(t) ==
    /\ thread_pc[t].fn \in {"get_memory_report", "get_memory_leak_report", "reset_memory_arena"}
    /\ thread_pc[t].step = 1
    /\ thread_seen' = [thread_seen EXCEPT ![t] = <<global_manager>>]
    /\ thread_pc' = [thread_pc EXCEPT ![t].step = 2]
    /\ UNCHANGED <<mutex, global_manager, thread_calls, NotGlobal>>

\* the statement after the last one of the body
BodyEnd(fn) ==
    IF fn = "init_advanced_memory_management" THEN Len(DefaultPools) + 2
    ELSE IF fn = "init_default_pools" THEN Len(DefaultPools) + 1
    ELSE 2

\* end of scope: the guard is dropped
Unlock(t) ==
    /\ thread_pc[t].fn # "none"
    /\ thread_pc[t].step = BodyEnd(thread_pc[t].fn)
    /\ mutex' = IF mutex = t THEN 0 ELSE mutex
    /\ thread_pc' = [thread_pc EXCEPT ![t] = NoThreadCall]
    /\ UNCHANGED <<global_manager, thread_calls, thread_seen, NotGlobal>>

NextGlobal ==
    \E t \in Threads :
        \/ Lock(t)
        \/ Replace(t)
        \/ CreateDefaultPool(t)
        \/ ReadManager(t)
        \/ Unlock(t)

InitGlobal ==
    /\ GlobalUnused
    /\ CacheUnused /\ ManagerUnused /\ DispatcherUnused /\ NoCallYet
    /\ ArenaUnused /\ GcUnused /\ LedgerUnused /\ PoolUnused /\ LateUnused

SpecGlobal == InitGlobal /\ [][NextGlobal]_vars

\* the threads between lock and the drop of the guard
InBody == {t \in Threads : thread_pc[t].fn # "none"}

\* the manager as a sequence of whole calls can leave it: without pools and
\* never replaced, or with the four default pools
WholeCalls(m) ==
    \/ m.pools = {} /\ m.replaced = 0
    \/ m.pools = {DefaultPools[i] : i \in 1..Len(DefaultPools)}

\* C21: the calls of init_default_pools, init_advanced_memory_management,
\* get_memory_report, get_memory_leak_report and reset_memory_arena made by
\* several threads run one at a time under the single mutex: at most one
\* thread is inside a body, and whatever a call reads is the manager as whole
\* calls left it, never the replaced manager before its four default pools
\* exist again.
C21_MutualExclusion ==
    /\ Cardinality(InBody) <= 1
    /\ \A t \in InBody : mutex = t
    /\ \A t \in Threads : thread_seen[t] # <<>> => WholeCalls(thread_seen[t][1])
    /\ InBody = {} => WholeCalls(global_manager)

\* one thread waits for the lock while the other is between the replacement
\* and the creation of the last pool, having read the manager before
C21_Witness ==
    /\ thread_pc[1].fn = "init_advanced_memory_management"
    /\ thread_pc[1].step = 3
    /\ global_manager.replaced = 1
    /\ thread_pc[2].fn = "none"
    /\ thread_calls[2] = 1
    /\ thread_seen[2] # <<>>

\* ---------------------------------------------------------------------------
\* Sigmoid derivatives (simd/mod.rs): f32 values as fractions <<num, den>>
\* ---------------------------------------------------------------------------

\* the values a test vector holds: 0, 1/2, 1
SigmoidValues == {<<0, 1>>, <<1, 2>>, <<1, 1>>}

\* the data vectors drawn
SigmoidData == {<<>>} \cup {<<x>> : x \in SigmoidValues}
                      \cup {<<x, y>> : x \in SigmoidValues, y \in {<<0, 1>>}}

\* x * (1.0 - x)
SigmoidDerivative(x) == <<x[1] * (x[2] - x[1]), x[2] * x[2]>>

\* activation_derivatives_scalar, the Sigmoid arm: derivatives[i] = x * (1.0 - x)
activation_derivatives_scalar_sigmoid(data, derivatives) ==
    [i \in 1..Len(derivatives) |->
        IF i <= Len(data) THEN SigmoidDerivative(data[i]) ELSE derivatives[i]]

\* CpuSimdOps::activation_derivatives with ActivationFunction::Sigmoid: the
\* early returns, then use_simd is false and the scalar kernel runs on every tier
activation_derivatives_sigmoid(data, derivatives) ==
    IF Len(data) = 0 \/ Len(derivatives) = 0 THEN derivatives
    ELSE IF Len(data) # Len(derivatives) THEN derivatives
    ELSE activation_derivatives_scalar_sigmoid(data, derivatives)

\* ops.activation_derivatives(&data, &mut derivatives, ActivationFunction::Sigmoid)
\* with derivatives = vec![0.0; dlen]
SigmoidDerivatives(data, dlen) ==
    /\ call.op = "none"
    /\ LET derivatives == [i \in 1..dlen |-> <<0, 1>>]
       IN /\ call' = [op |-> "activation_derivatives_sigmoid",
                      dims |-> <<Len(data), dlen>>, ptrs |-> <<>>,
                      inputs |-> <<data>>, before |-> derivatives]
          /\ out' = activation_derivatives_sigmoid(data, derivatives)
          /\ outcome' = "returned"
    /\ UNCHANGED <<configVars, cacheVars, mgrVars,
                 gcVars, arenaVars, ledgerVars, poolVars, extVars>>

NextSigmoid ==
    \/ \E data \in SigmoidData, dlen \in 0..MaxLen : SigmoidDerivatives(data, dlen)
    \/ Return

SpecSigmoid == InitSimd /\ [][NextSigmoid]_vars

\* C22: activation_derivatives with Sigmoid applied to data = [0] writes 0.25
\* into derivatives[0], on every tier.
C22_SigmoidDerivativeAtZero ==
    (/\ call.op = "activation_derivatives_sigmoid"
     /\ call.inputs = <<<< <<0, 1>> >>>>
     /\ call.dims = <<1, 1>>)
        => out[1][1] * 4 = out[1][2]

\* the call of test_sigmoid_derivatives has returned with derivatives[0] = 0
C22_DerivativeIsZero ==
    /\ call.op = "activation_derivatives_sigmoid"
    /\ call.inputs = <<<< <<0, 1>> >>>>
    /\ call.dims = <<1, 1>>
    /\ out[1] = <<0, 1>>

\* ---------------------------------------------------------------------------
\* AlignedMemory (simd/mod.rs), with the machine word scaled to WordBits bits
\* ---------------------------------------------------------------------------

NotBlock == <<cacheVars, mgrVars, configVars, callVars, gcVars, arenaVars, ledgerVars, poolVars,
              globalVars, placeVars>>

RECURSIVE BitAnd(_, _)
\* x & y
BitAnd(x, y) ==
    IF x = 0 \/ y = 0 THEN 0
    ELSE (x % 2) * (y % 2) + 2 * BitAnd(x \div 2, y \div 2)

\* alignment == 0 || (alignment & (alignment - 1)) != 0
NotPowerOfTwoMask(alignment) == alignment = 0 \/ BitAnd(alignment, alignment - 1) # 0

\* Layout::from_size_align(size, alignment): <<>> (Err) or <<layout>>; the size
\* rounded up to the alignment must not exceed isize::MAX
LayoutFromSizeAlign(size, alignment) ==
    IF NotPowerOfTwoMask(alignment) THEN <<>>
    ELSE IF size > IsizeMax - (alignment - 1) THEN <<>>
    ELSE <<[size |-> size, align |-> alignment]>>

\* the addresses alloc(layout) can return: multiples of layout.align with the
\* block inside the address space; 0 is the null pointer
AllocAddresses(layout) ==
    {0} \cup {p \in {layout.align * q : q \in 1..MaxBaseMul} : p + layout.size <= WordModulus}

\* AlignedMemory::new(len, alignment); overflow_checks: the build panics on an
\* overflowing len * size_of::<f32>() instead of wrapping; ptr: what alloc returns
AlignedMemoryNew(len, alignment, overflow_checks, ptr) ==
    IF NotPowerOfTwoMask(alignment)
    THEN [block |-> <<>>, result |-> "Err: Alignment must be a power of 2"]
    ELSE IF overflow_checks /\ len * SizeOfF32 >= WordModulus
    THEN [block |-> <<>>, result |-> "panic"]
    ELSE LET size == (len * SizeOfF32) % WordModulus
             layout == LayoutFromSizeAlign(size, alignment)
         IN IF layout = <<>> THEN [block |-> <<>>, result |-> "Err: Invalid layout"]
            ELSE IF ptr = 0 THEN [block |-> <<>>, result |-> "Err: Memory allocation failed"]
            ELSE [block |-> <<[ptr |-> ptr, layout |-> layout[1], len |-> len]>>,
                  result |-> "Ok"]

\* the length of as_slice() in bytes of the layout
as_slice_of_layout(b) == b.layout.size

\* the length of as_slice() and of as_mut_slice(): from_raw_parts(self.ptr, self.len)
as_slice(b) == b.len

\* AlignedMemory::is_aligned
is_aligned(b, alignment) == b.ptr % alignment = 0

BlockLens == {0, 1, 2, 16, 31, 32, 64}

BlockAlignments == {0, 1, 3, 8, 12, 16, 32, 64}

\* what alloc can return for the call's layout (null when no layout is built)
AllocReturns(len, alignment) ==
    LET layout == LayoutFromSizeAlign((len * SizeOfF32) % WordModulus, alignment)
    IN IF layout = <<>> THEN {0} ELSE AllocAddresses(layout[1])

\* let block = AlignedMemory::new(len, alignment)
NewBlock(len, alignment, overflow_checks, ptr) ==
    /\ block_op.op = "none"
    /\ LET r == AlignedMemoryNew(len, alignment, overflow_checks, ptr)
       IN /\ block' = r.block
          /\ block_op' = [op |-> "new", len |-> len, alignment |-> alignment,
                          granted |-> ptr # 0, result |-> r.result]
    /\ UNCHANGED NotBlock

\* the Result goes out of scope: Drop for AlignedMemory
DropBlock ==
    /\ block_op.op = "new"
    /\ block' = <<>>
    /\ block_op' = NoBlockOp
    /\ UNCHANGED NotBlock

NextBlock ==
    \/ \E len \in BlockLens, alignment \in BlockAlignments, overflow_checks \in BOOLEAN :
          \E ptr \in AllocReturns(len, alignment) :
              NewBlock(len, alignment, overflow_checks, ptr)
    \/ DropBlock

InitBlock ==
    /\ BlockUnused
    /\ CacheUnused /\ ManagerUnused /\ DispatcherUnused /\ NoCallYet
    /\ ArenaUnused /\ GcUnused /\ LedgerUnused /\ PoolUnused /\ GlobalUnused /\ PlaceUnused

SpecBlock == InitBlock /\ [][NextBlock]_vars

\* n is 2^e for some e
PowerOfTwo(n) == \E x \in 0..(WordBits - 1) : n = 2 ^ x

\* the byte size of len elements fits a layout of that alignment, and the
\* system allocator returned a block
LayoutFitsAndGranted ==
    /\ block_op.len * SizeOfF32 + block_op.alignment - 1 <= IsizeMax
    /\ block_op.granted

\* C23: AlignedMemory::new(len, alignment) returns an error exactly when
\* alignment is 0 or not a power of two (for lengths whose byte size is a valid
\* layout and when the system allocator succeeds); when it succeeds, the
\* address is a multiple of alignment for alignment in {8, 16, 32, 64} and the
\* read and write views contain exactly len elements.
C23_AlignedBlock ==
    block_op.op = "new" =>
        /\ ~PowerOfTwo(block_op.alignment) => block_op.result # "Ok" /\ block = <<>>
        /\ PowerOfTwo(block_op.alignment) /\ LayoutFitsAndGranted => block_op.result = "Ok"
        /\ block_op.result = "Ok" =>
              /\ block # <<>>
              /\ block_op.alignment \in {8, 16, 32, 64} => is_aligned(block[1], block_op.alignment)
              /\ LayoutFitsAndGranted => as_slice(block[1]) = block_op.len

\* a block of 16 elements at a multiple of 64 other than 64 itself
C23_Witness ==
    /\ block_op.op = "new"
    /\ block_op.result = "Ok"
    /\ block_op.len = 16
    /\ block_op.alignment = 64
    /\ block # <<>>
    /\ block[1].ptr = 128

\* ---------------------------------------------------------------------------
\* ArenaAllocator placed in memory: the addresses of the chunks and of the
\* ranges handed out, with requests up to usize::MAX of the scaled machine
\* ---------------------------------------------------------------------------

PlaceSizes == {3, 6, WordModulus - 1}

PlaceAlignments == {1, 4, 16}

NotPlace == <<cacheVars, mgrVars, configVars, callVars, gcVars, ledgerVars, poolVars,
              globalVars, blockVars>>

\* the addresses alloc can return for a chunk of `size` bytes: non-null
\* multiples of the arena's alignment, clear of the chunks that exist
ChunkAddresses(a, size) ==
    {p \in 1..(WordModulus - size) :
        /\ p % a.alignment = 0
        /\ \A i \in 1..Len(bases) : p + size <= bases[i] \/ bases[i] + a.chunks[i].size <= p}

\* the lowest MaxBaseMul of them
FirstAddresses(S) == {p \in S : Cardinality({q \in S : q < p}) < MaxBaseMul}

\* an addition of ArenaAllocator::allocate exceeds usize::MAX: in one of the
\* chunk attempts the call makes, or in self.total_allocated += size
ArenaAllocateOverflows(a, size, alignment, granted) ==
    LET cur  == a.current_chunk + 1
        here == MemoryChunkAllocate(a.chunks[cur], size, alignment)
        i    == FirstFit(a.chunks, size, alignment)
        last == IF i = 0 THEN Len(a.chunks) ELSE i
    IN  \/ ChunkAllocateOverflows(a.chunks[cur], size, alignment)
        \/ here = <<>> /\ \E j \in 1..last : ChunkAllocateOverflows(a.chunks[j], size, alignment)
        \/ /\ ArenaAllocatorAllocate(a, size, alignment, granted).ok
           /\ a.total_allocated + size >= WordModulus

\* arena.allocate(size, alignment); overflow_checks: the build panics on an
\* overflowing addition instead of wrapping; base: the address of a new chunk
PlaceAlloc(size, alignment, granted, overflow_checks, base) ==
    /\ place_op.result # "panic"
    /\ Len(ranges) < MaxRequests
    /\ granted => Len(arena[1].chunks) < MaxChunks
    /\ LET a == arena[1]
           r == ArenaAllocatorAllocate(a, size, alignment, granted)
           chunk == r.arena.current_chunk + 1
           added == Len(r.arena.chunks) > Len(a.chunks)
           before == IF added THEN 0 ELSE a.chunks[chunk].offset
           start == align_offset(before, alignment)
           new_bases == IF added THEN Append(bases, base) ELSE bases
       IN  IF overflow_checks /\ ArenaAllocateOverflows(a, size, alignment, granted)
           THEN /\ place_op' = [op |-> "allocate", size |-> size, alignment |-> alignment,
                                result |-> "panic", chunk |-> 0, before |-> 0, ptr |-> 0]
                /\ UNCHANGED <<arena, bases, ranges>>
           ELSE IF r.ok
           THEN /\ arena' = <<r.arena>>
                /\ bases' = new_bases
                /\ ranges' = Append(ranges, [chunk |-> chunk, start |-> start, size |-> size])
                /\ place_op' = [op |-> "allocate", size |-> size, alignment |-> alignment,
                                result |-> "Some", chunk |-> chunk, before |-> before,
                                ptr |-> (new_bases[chunk] + start) % WordModulus]
           ELSE /\ place_op' = [op |-> "allocate", size |-> size, alignment |-> alignment,
                                result |-> "None", chunk |-> 0, before |-> 0, ptr |-> 0]
                /\ UNCHANGED <<arena, bases, ranges>>
    /\ UNCHANGED <<enable_arena, arena_log, arena_fresh, arena_op, NotPlace>>

\* arena.reset()
PlaceReset ==
    /\ place_op.result # "panic"
    /\ arena' = <<ArenaAllocatorReset(arena[1])>>
    /\ ranges' = <<>>
    /\ place_op' = [NoPlaceOp EXCEPT !.op = "reset", !.result = "done"]
    /\ UNCHANGED <<bases, enable_arena, arena_log, arena_fresh, arena_op, NotPlace>>

NextPlace ==
    \/ \E size \in PlaceSizes, alignment \in PlaceAlignments, granted \in BOOLEAN,
          overflow_checks \in BOOLEAN :
          \E base \in IF granted
                      THEN FirstAddresses(ChunkAddresses(arena[1], Max(arena[1].chunk_size, size)))
                      ELSE {0} :
              PlaceAlloc(size, alignment, granted /\ base # 0, overflow_checks, base)
    \/ PlaceReset

\* ArenaAllocator::new(chunk_size, alignment) as test_arena_allocator builds it
InitPlace ==
    /\ \E chunk_size \in ArenaChunkSizes :
           arena = ArenaAllocatorNew(chunk_size, TestAlignment, TRUE)
    /\ bases \in {<<TestAlignment * q>> : q \in 1..MaxBaseMul}
    /\ ranges = <<>>
    /\ place_op = NoPlaceOp
    /\ enable_arena = FALSE
    /\ arena_log = <<>>
    /\ arena_fresh = TRUE
    /\ arena_op = NoArenaOp
    /\ CacheUnused /\ ManagerUnused /\ DispatcherUnused /\ NoCallYet
    /\ GcUnused /\ LedgerUnused /\ PoolUnused /\ GlobalUnused /\ BlockUnused

SpecPlace == InitPlace /\ [][NextPlace]_vars

\* C24: in every state reachable by ArenaAllocator::allocate and reset, for
\* every request size and alignment representable in the machine word, every
\* chunk has 0 <= offset <= size, a successful sub-allocation does not
\* decrease the chunk's offset, each returned range lies inside its chunk, and
\* two ranges returned from the same chunk since its last reset are disjoint.
C24_ChunkCursor ==
    /\ \A i \in 1..Len(arena[1].chunks) :
          0 <= arena[1].chunks[i].offset /\ arena[1].chunks[i].offset <= arena[1].chunks[i].size
    /\ place_op.result = "Some" => arena[1].chunks[place_op.chunk].offset >= place_op.before
    /\ \A i \in 1..Len(ranges) :
          ranges[i].start + ranges[i].size <= arena[1].chunks[ranges[i].chunk].size
    /\ \A i, j \in 1..Len(ranges) :
          i < j /\ ranges[i].chunk = ranges[j].chunk =>
              \/ ranges[i].start + ranges[i].size <= ranges[j].start
              \/ ranges[j].start + ranges[j].size <= ranges[i].start

\* C29: a pointer returned by ArenaAllocator::allocate is a multiple of the
\* requested alignment, for every power-of-two alignment, one larger than the
\* arena's own alignment included.
C29_RequestedAlignment ==
    place_op.result = "Some" => place_op.ptr % place_op.alignment = 0

\* ---------------------------------------------------------------------------
\* ArenaAllocator::allocate: when the arena grows
\* ---------------------------------------------------------------------------

\* the chunk has room for size bytes at its offset rounded up to the alignment
CanHold(chunk, size, alignment) ==
    \E start \in chunk.offset..(chunk.offset + alignment - 1) :
        /\ start % alignment = 0
        /\ start + size <= chunk.size

\* C25: ArenaAllocator::allocate(size, alignment) adds a chunk only when
\* neither the current chunk nor any other existing chunk can hold the request
\* at its aligned offset; the added chunk has byte size max(chunk_size, size);
\* chunk_count() grows by at most one per call; and the call returns None only
\* when creating that new chunk fails.
C25_GrowthPolicy ==
    [][(ArenaAlloc /\ arena[1].chunks # <<>>) =>
          LET a == arena[1]
              b == arena'[1]
              size == arena_op'.size
              alignment == arena_op'.alignment
              none_holds == \A i \in 1..Len(a.chunks) : ~CanHold(a.chunks[i], size, alignment)
          IN  /\ chunk_count(b) <= chunk_count(a) + 1
              /\ chunk_count(b) > chunk_count(a) =>
                    /\ none_holds
                    /\ b.chunks[chunk_count(b)].size = Max(a.chunk_size, size)
              /\ arena_op'.result = "None" => none_holds /\ ~arena_op'.granted
              /\ arena_op'.result \in {"Some", "None"}]_vars

\* a request larger than chunk_size was served by a second chunk of its size
C25_Witness ==
    /\ arena_op.op = "allocate"
    /\ arena_op.result = "Some"
    /\ arena_op.size > arena[1].chunk_size
    /\ chunk_count(arena[1]) = 2
    /\ arena[1].chunks[2].size = arena_op.size
    /\ arena[1].current_chunk = 1

\* ---------------------------------------------------------------------------
\* SimdSafety::validate_matrix_dims in the scaled machine word
\* ---------------------------------------------------------------------------

\* the dimensions drawn: small ones, and ones around the square root and the
\* quarter of usize::MAX + 1
DimValues == {0, 1, 2, 3, 8, 15, 16, 17, 63, 64, WordModulus - 1}

\* usize::saturating_mul and usize::saturating_add of the scaled machine
saturating_mul(x, y) == IF x * y > WordModulus - 1 THEN WordModulus - 1 ELSE x * y
saturating_add(x, y) == IF x + y > WordModulus - 1 THEN WordModulus - 1 ELSE x + y

\* SimdSafety::validate_matrix_dims with usize of WordBits bits
validate_matrix_dims_word(m, n, k) ==
    IF m = 0 \/ n = 0 \/ k = 0 THEN "Err"
    ELSE LET max_index == saturating_add(saturating_mul(m, k), saturating_mul(k, n))
         IN  IF max_index > (WordModulus - 1) \div SizeOfF32 THEN "Err" ELSE "Ok"

\* the head of CpuSimdOps::matmul: the validation, then a_required = m * k,
\* b_required = k * n, c_required = m * n in wrapping arithmetic
ValidateDims(m, n, k) ==
    /\ call.op = "none"
    /\ call' = [op |-> "validate_matrix_dims", dims |-> <<m, n, k>>, ptrs |-> <<>>,
                inputs |-> <<>>, before |-> <<>>]
    /\ out' = <<(m * k) % WordModulus, (k * n) % WordModulus, (m * n) % WordModulus>>
    /\ outcome' = validate_matrix_dims_word(m, n, k)
    /\ UNCHANGED <<configVars, cacheVars, mgrVars,
                 gcVars, arenaVars, ledgerVars, poolVars, extVars>>

\* the caller goes on to the next call
DimsDone ==
    /\ call.op = "validate_matrix_dims"
    /\ call' = NoCall
    /\ out' = <<>>
    /\ outcome' = "none"
    /\ UNCHANGED <<configVars, cacheVars, mgrVars,
                 gcVars, arenaVars, ledgerVars, poolVars, extVars>>

NextDims ==
    \/ \E m \in DimValues, n \in DimValues, k \in DimValues : ValidateDims(m, n, k)
    \/ DimsDone

InitDims ==
    /\ NoCallYet
    /\ DispatcherUnused /\ CacheUnused /\ ManagerUnused /\ ArenaUnused /\ OthersUnused

SpecDims == InitDims /\ [][NextDims]_vars

\* C26: whenever validate_matrix_dims(m, n, k) returns Ok, the products m*k,
\* k*n and m*n that matmul computes, and their byte sizes, do not exceed the
\* machine word (of WordBits bits, overflow being arithmetic modulo 2^WordBits).
C26_NoOverflowAfterValidation ==
    (call.op = "validate_matrix_dims" /\ outcome = "Ok") =>
        LET m == call.dims[1]
            n == call.dims[2]
            k == call.dims[3]
        IN  /\ out = <<m * k, k * n, m * n>>
            /\ m * k * SizeOfF32 < WordModulus
            /\ k * n * SizeOfF32 < WordModulus
            /\ m * n * SizeOfF32 < WordModulus

\* ---------------------------------------------------------------------------
\* GarbageCollector: keys referenced again while pending
\* ---------------------------------------------------------------------------

\* the keys with a positive count
ReferencedKeys(counts) == {k \in DOMAIN counts : counts[k] > 0}

\* C27: a key whose reference count is greater than zero when collect_garbage
\* or force_collect runs is neither returned nor removed from ref_counts, a
\* key that dropped to zero and was referenced again with inc_ref before the
\* collection included.
C27_ReferencedKeyKept ==
    [][gc_op'.op \in {"collect_garbage", "force_collect"} =>
          \A k \in ReferencedKeys(ref_counts) :
              /\ k \notin Range(gc_op'.result)
              /\ k \in DOMAIN ref_counts'
              /\ ref_counts'[k] = ref_counts[k]]_vars

\* ---------------------------------------------------------------------------
\* the aligned loads and stores of the AVX-512 kernels
\* ---------------------------------------------------------------------------

\* the slices of the call are as long as its dimensions need
OperandsFit ==
    IF call.op = "matmul" THEN MatmulFits
    ELSE IF call.op = "matvec"
    THEN /\ Len(call.inputs[1]) >= call.dims[1] * call.dims[2]
         /\ Len(call.inputs[2]) >= call.dims[2]
         /\ Len(call.before) >= call.dims[1]
    ELSE /\ Len(call.before) >= call.dims[1] * call.dims[2]
         /\ Len(call.inputs[1]) >= call.dims[2]

\* C28: when matmul_avx512, matvec_avx512 or add_bias_avx512 runs on operands
\* whose base addresses are multiples of 64 bytes, every aligned load and store
\* it executes targets a multiple of 64 bytes inside the operand, for all
\* dimensions, row lengths that are not multiples of 16 elements included: no
\* access of the call is one that faults or falls outside a slice.
C28_AlignedAccesses ==
    (/\ call.op \in {"matmul", "matvec", "add_bias"}
     /\ Arm = "avx512"
     /\ \A q \in 1..Len(call.ptrs) : call.ptrs[q] % ArmAlignment = 0
     /\ OperandsFit) =>
        outcome \notin {"faulted", "undefined"}

\* ---------------------------------------------------------------------------
\* MemoryManager: what total_allocated counts
\* ---------------------------------------------------------------------------

\* the bytes handed out by arena_allocate since the last reset of the arena:
\* the offsets of the chunks (every request is a multiple of the alignment)
ArenaShare ==
    IF arena = <<>> THEN 0
    ELSE SumOver([i \in 1..Len(arena[1].chunks) |-> arena[1].chunks[i].offset],
                 1..Len(arena[1].chunks))

====
